---- MODULE Spec2Model ----
(***************************************************************************)
(* Verification model of the flo renderer core:                            *)
(*   - MemoryPool (src/src/memory_pool.rs): first-fit sub-allocator        *)
(*   - VulkanCore::begin_frame / end_frame (src/src/vulkan_common.rs):     *)
(*     double-buffered frame pacing                                        *)
(*   - VulkanRenderer mesh registry and multi-mesh command recording       *)
(*     (src/src/vulkan_renderer_unified.rs)                                *)
(* Each component has its own specification (SpecPool, SpecFrame,          *)
(* SpecMesh); the variables of the other components stay at their initial  *)
(* values.                                                                 *)
(***************************************************************************)
EXTENDS Integers, Sequences, FiniteSets, TLC

VARIABLES
    \* ---- MemoryPool ----
    allocations,       \* Vec<MemoryAllocation>: sequence of chunk sizes
    free_regions,      \* Vec<FreeRegion>
    allocation_size,   \* configured chunk size
    total_allocated,   \* number of chunks ever allocated
    live_blocks,       \* blocks returned by allocate and not yet freed (held by the callers)
    pool_call,         \* record of the last MemoryPool call and its result
    \* ---- MemoryPoolManager staging buffer ----
    staging_buffer,    \* Option<vk::Buffer>: handle, NullHandle when None
    staging_memory,    \* Option<vk::DeviceMemory>: handle, NullHandle when None
    staging_size,      \* size of the staging buffer
    staging_device,    \* the device's view: live buffer and memory handles
    staging_call,      \* record of the last get_staging_buffer call and of the calls so far
    upload,            \* the last update_mesh_vertices_full: its calls and the data they moved
    \* ---- VulkanCore frame pacing ----
    current_frame,                \* frame slot index, 0..MAX_FRAMES_IN_FLIGHT-1
    in_flight_fences,             \* slot -> TRUE when the fence is signaled
    image_available_semaphores,   \* slot -> TRUE when a signal is pending or set
    render_finished_semaphores,   \* slot -> TRUE when a signal is pending or set
    command_buffers,              \* image index -> "initial" | "executable"
    swapchain_images,             \* image index -> "free" | "app" | "queued"
    submitted,                    \* graphics queue: submissions not yet completed, in order
    presents,                     \* present requests not yet executed, in order
    fpc,                          \* position of the CPU thread inside render_frame_*
    image_index,                  \* image index returned by the last begin_frame
    frame_index,                  \* number of frames completed by a successful end_frame
    frame_ops,                    \* device and queue calls made for the current frame, in order
    entry_point,                  \* the render_frame_* function that runs the current frame
    \* ---- VulkanRenderer mesh registry and frame recording ----
    meshes,            \* Vec<MeshEntry>
    pipelines,         \* names registered in the pipeline HashMap
    current_pipeline,  \* name selected by set_current_pipeline
    graphics_pipeline, \* compatibility field: handle of the selected pipeline
    cmds,              \* commands recorded into the frame's command buffer
    returned,          \* indices returned by the add calls so far
    removed,           \* indices remove_mesh has cleared
    pool_blocks,       \* memory_pool as the registry sees it: the blocks of mesh buffers
    rejected,          \* observer: the last call that named an index out of range
    gpu_reads,         \* per submission on the graphics queue: the mesh resources it reads
    hazard             \* the last destroy or host write that hit a resource a frame reads

poolVars == <<allocations, free_regions, allocation_size, total_allocated, live_blocks, pool_call>>

stagingVars == <<staging_buffer, staging_memory, staging_size, staging_device, staging_call,
                 upload>>

frameVars == <<current_frame, in_flight_fences, image_available_semaphores,
               render_finished_semaphores, command_buffers, swapchain_images,
               submitted, presents, fpc, image_index, frame_index, frame_ops, entry_point>>

\* fpc and image_index are shared with the frame-pacing variables
meshVars == <<meshes, pipelines, current_pipeline, graphics_pipeline, cmds, returned, removed,
              pool_blocks>>

observerVars == <<rejected, gpu_reads, hazard>>

vars == <<allocations, free_regions, allocation_size, total_allocated, live_blocks, pool_call,
          staging_buffer, staging_memory, staging_size, staging_device, staging_call, upload,
          current_frame, in_flight_fences, image_available_semaphores,
          render_finished_semaphores, command_buffers, swapchain_images,
          submitted, presents, fpc, image_index, frame_index, frame_ops, entry_point,
          meshes, pipelines, current_pipeline, graphics_pipeline, cmds, returned, removed,
          pool_blocks, rejected, gpu_reads, hazard>>

-----------------------------------------------------------------------------
(* Generic helpers *)

Max(a, b) == IF a >= b THEN a ELSE b

Range(s) == {s[i] : i \in 1..Len(s)}

RemoveAt(s, k) == [i \in 1..(Len(s) - 1) |-> IF i < k THEN s[i] ELSE s[i + 1]]

ReplaceAt(s, k, v) == [s EXCEPT ![k] = v]

-----------------------------------------------------------------------------
(* MemoryPool *)

MB == 1024 * 1024

MinChunkSize == 256 * 1024 * 1024

\* Bounds of the pool exploration
MaxChunks == 2
MaxLive == 2
MaxRegions == 3
MaxRetry == 2

\* Request sizes and alignments tried by the callers
ConfiguredSizes == {MB, 300 * MB}
Sizes == {3, 10 * MB, 256 * MB + 1}
Alignments == {1, 256}

NoBlock == [memory |-> -1, offset |-> 0, size |-> 0, allocation_index |-> -1]

\* MemoryPool::new: allocation_size.max(256 MB)
PoolNew(cfg) == Max(cfg, MinChunkSize)

\* ((x + alignment - 1) / alignment) * alignment
AlignUp(x, alignment) == ((x + alignment - 1) \div alignment) * alignment

\* aligned_size of a request
AlignedSize(size, alignment) == AlignUp(size, alignment)

\* padding needed to align the start of a region
Padding(region, alignment) == AlignUp(region.offset, alignment) - region.offset

\* the condition of the scan: region.size >= aligned_size + padding
Fits(region, size, alignment) ==
    region.size >= AlignedSize(size, alignment) + Padding(region, alignment)

\* (mutant) the scan keeps the last region that fits
FirstFit_Last(regions, size, alignment) ==
    IF \E i \in 1..Len(regions) : Fits(regions[i], size, alignment)
    THEN CHOOSE i \in 1..Len(regions) :
            /\ Fits(regions[i], size, alignment)
            /\ \A j \in (i + 1)..Len(regions) : ~Fits(regions[j], size, alignment)
    ELSE 0

\* index (1-based) of the first region that fits, 0 on a miss
FirstFit(regions, size, alignment) ==
    IF \E i \in 1..Len(regions) : Fits(regions[i], size, alignment)
    THEN CHOOSE i \in 1..Len(regions) :
            /\ Fits(regions[i], size, alignment)
            /\ \A j \in 1..(i - 1) : ~Fits(regions[j], size, alignment)
    ELSE 0

\* (mutant) the block starts at the region's own offset
CarveBlock_Unaligned(region, size, alignment) ==
    [memory |-> region.allocation_index,
     offset |-> region.offset,
     size |-> AlignedSize(size, alignment),
     allocation_index |-> region.allocation_index]

\* the block carved out of region i
CarveBlock(region, size, alignment) ==
    [memory |-> region.allocation_index,
     offset |-> AlignUp(region.offset, alignment),
     size |-> AlignedSize(size, alignment),
     allocation_index |-> region.allocation_index]

\* (mutant) the remainder forgets the alignment padding
CarveRegions_NoPadding(regions, i, size, alignment) ==
    LET region == regions[i]
        aligned_size == AlignedSize(size, alignment)
        padding == Padding(region, alignment)
    IN IF region.size > aligned_size + padding
       THEN ReplaceAt(regions, i,
                [allocation_index |-> region.allocation_index,
                 offset |-> region.offset + aligned_size,
                 size |-> region.size - aligned_size])
       ELSE RemoveAt(regions, i)

\* the free list after carving the block out of region i: split or remove
CarveRegions(regions, i, size, alignment) ==
    LET region == regions[i]
        aligned_size == AlignedSize(size, alignment)
        aligned_offset == AlignUp(region.offset, alignment)
        padding == Padding(region, alignment)
    IN IF region.size > aligned_size + padding
       THEN ReplaceAt(regions, i,
                [allocation_index |-> region.allocation_index,
                 offset |-> aligned_offset + aligned_size,
                 size |-> region.size - aligned_size - padding])
       ELSE RemoveAt(regions, i)

\* (mutant) every chunk has the configured size
ChunkSize_Configured(cfg, size, alignment) == cfg

\* (mutant) every chunk has the size of the request
ChunkSize_Request(cfg, size, alignment) == AlignedSize(size, alignment)

\* chunk size requested on a miss: self.allocation_size.max(aligned_size)
ChunkSize(cfg, size, alignment) == Max(cfg, AlignedSize(size, alignment))

\* allocate_new_chunk: push the chunk and one free region covering it
AllocateNewChunk(st, size) ==
    [st EXCEPT !.allocations = Append(st.allocations, size),
               !.free_regions = Append(st.free_regions,
                    [allocation_index |-> Len(st.allocations), offset |-> 0, size |-> size]),
               !.total_allocated = st.total_allocated + 1,
               !.created = st.created + 1]

\* MemoryPool::allocate, with its recursive retry. st carries the pool fields,
\* the number of chunks created by this call and the result. grant says whether
\* the device grants allocate_memory; fuel bounds the recursion depth explored.
RECURSIVE Allocate(_, _, _, _, _)
Allocate(st, size, alignment, grant, fuel) ==
    LET i == FirstFit(st.free_regions, size, alignment)
    IN IF i # 0
       THEN [st EXCEPT !.block = CarveBlock(st.free_regions[i], size, alignment),
                       !.free_regions = CarveRegions(st.free_regions, i, size, alignment),
                       !.result = "ok"]
       ELSE IF ~grant
            THEN [st EXCEPT !.result = "err"]
            ELSE IF fuel = 0
                 THEN [st EXCEPT !.result = "diverged"]
                 ELSE Allocate(AllocateNewChunk(st, ChunkSize(st.allocation_size, size, alignment)),
                               size, alignment, grant, fuel - 1)

PoolState ==
    [allocations |-> allocations, free_regions |-> free_regions,
     allocation_size |-> allocation_size, total_allocated |-> total_allocated,
     created |-> 0, block |-> NoBlock, result |-> "none"]

\* A caller runs pool.allocate(size, alignment) and keeps the returned block.
allocate(size, alignment, grant) ==
    LET r == Allocate(PoolState, size, alignment, grant, MaxRetry)
    IN /\ Len(live_blocks) < MaxLive
       /\ Len(r.allocations) <= MaxChunks
       /\ allocations' = r.allocations
       /\ free_regions' = r.free_regions
       /\ total_allocated' = r.total_allocated
       /\ live_blocks' = IF r.result = "ok" THEN Append(live_blocks, r.block) ELSE live_blocks
       /\ pool_call' = [op |-> "allocate", size |-> size, alignment |-> alignment,
                        result |-> r.result, block |-> r.block, created |-> r.created,
                        denied |-> (FirstFit(free_regions, size, alignment) = 0 /\ ~grant)]
       /\ UNCHANGED allocation_size

\* (mutant) the freed block is merged into a free region that ends where it starts
Free_Coalesce(regions, block) ==
    IF \E i \in 1..Len(regions) :
            /\ regions[i].allocation_index = block.allocation_index
            /\ regions[i].offset + regions[i].size = block.offset
    THEN LET i == CHOOSE i \in 1..Len(regions) :
                    /\ regions[i].allocation_index = block.allocation_index
                    /\ regions[i].offset + regions[i].size = block.offset
         IN ReplaceAt(regions, i, [regions[i] EXCEPT !.size = @ + block.size])
    ELSE Append(regions, [allocation_index |-> block.allocation_index,
                          offset |-> block.offset, size |-> block.size])

\* (mutant) the freed region reaches back to the start of the chunk
Free_FromChunkStart(regions, block) ==
    Append(regions, [allocation_index |-> block.allocation_index,
                     offset |-> 0, size |-> block.offset + block.size])

\* MemoryPool::free: append the block as a free region, no coalescing.
Free(regions, block) ==
    Append(regions, [allocation_index |-> block.allocation_index,
                     offset |-> block.offset, size |-> block.size])

\* A caller hands its k-th live block back (each block is freed once).
free(k) ==
    /\ k \in 1..Len(live_blocks)
    /\ Len(free_regions) < MaxRegions
    /\ free_regions' = Free(free_regions, live_blocks[k])
    /\ live_blocks' = RemoveAt(live_blocks, k)
    /\ pool_call' = [op |-> "free", size |-> live_blocks[k].size, alignment |-> 1,
                     result |-> "ok", block |-> live_blocks[k], created |-> 0,
                     denied |-> FALSE]
    /\ UNCHANGED <<allocations, allocation_size, total_allocated>>

NoCall == [op |-> "none", size |-> 0, alignment |-> 1, result |-> "none",
           block |-> NoBlock, created |-> 0, denied |-> FALSE]

PoolInitial ==
    /\ allocations = <<>>
    /\ free_regions = <<>>
    /\ allocation_size \in {PoolNew(cfg) : cfg \in ConfiguredSizes}
    /\ total_allocated = 0
    /\ live_blocks = <<>>
    /\ pool_call = NoCall

-----------------------------------------------------------------------------
(* MemoryPoolManager: the reusable staging buffer *)

\* Bound of the staging exploration: handles the device hands out
MaxStagingHandles == 4

\* required_size.max(16 * 1024 * 1024)
MinStagingSize == 16 * 1024 * 1024

\* sizes asked for by the upload paths
RequiredSizes == {MB, 16 * MB, 16 * MB + 1, 20 * MB, 32 * MB}

\* vk::Buffer::null() / None
NullHandle == 0

\* MemoryPoolManager::new: no staging buffer, size 0
ManagerNew ==
    /\ staging_buffer = NullHandle
    /\ staging_memory = NullHandle
    /\ staging_size = 0
    /\ staging_device = [buffers |-> {}, memories |-> {}, next |-> 1, double_destroy |-> FALSE]
    /\ staging_call = [required |-> 0, result |-> "none", buffer |-> NullHandle,
                       replaced |-> FALSE, old_size |-> 0, old_buffer |-> NullHandle,
                       max_required |-> 0, failed |-> FALSE]

StagingOutcomes == {"ok", "create_buffer_err", "find_memory_type_err",
                    "allocate_memory_err", "bind_buffer_memory_err"}

\* (mutant) the new buffer has exactly the required size
StagingSize_Exact(required_size) == required_size

\* let size = required_size.max(16 * 1024 * 1024)
StagingSize(required_size) == Max(required_size, MinStagingSize)

\* (mutant) the old buffer is replaced without being destroyed
DestroyOld_Keep(device, buffer, memory) == device

\* destroy_buffer / free_memory of the old staging buffer, when there is one;
\* destroying a handle that is no longer live is recorded in double_destroy
DestroyOld(device, buffer, memory) ==
    [device EXCEPT
        !.buffers = @ \ {buffer},
        !.memories = @ \ {memory},
        !.double_destroy = @ \/ (buffer # NullHandle /\ buffer \notin device.buffers)
                             \/ (memory # NullHandle /\ memory \notin device.memories)]

\* MemoryPoolManager::get_staging_buffer. The fields are written only when
\* every step succeeded; an error return leaves them as they were, after the
\* old buffer was destroyed.
get_staging_buffer(required_size, outcome) ==
    LET grow == staging_size < required_size
        after_destroy == DestroyOld(staging_device, staging_buffer, staging_memory)
        b == after_destroy.next
        m == after_destroy.next
        with_buffer == [after_destroy EXCEPT !.buffers = @ \cup {b}, !.next = @ + 1]
        with_memory == [with_buffer EXCEPT !.memories = @ \cup {m}]
        failed == grow /\ outcome # "ok"
    IN /\ grow => staging_device.next <= MaxStagingHandles
       /\ ~grow => outcome = "ok"
       /\ staging_device' =
             IF ~grow THEN staging_device
             ELSE IF outcome = "create_buffer_err" THEN after_destroy
             ELSE IF outcome \in {"find_memory_type_err", "allocate_memory_err"} THEN with_buffer
             ELSE with_memory
       /\ staging_buffer' = IF grow /\ ~failed THEN b ELSE staging_buffer
       /\ staging_memory' = IF grow /\ ~failed THEN m ELSE staging_memory
       /\ staging_size' = IF grow /\ ~failed THEN StagingSize(required_size) ELSE staging_size
       /\ staging_call' = [required |-> required_size,
                           result |-> IF failed THEN "err" ELSE "ok",
                           buffer |-> IF failed THEN NullHandle ELSE staging_buffer',
                           replaced |-> grow /\ ~failed,
                           old_size |-> staging_size,
                           old_buffer |-> staging_buffer,
                           max_required |-> Max(staging_call.max_required, required_size),
                           failed |-> staging_call.failed \/ failed]

-----------------------------------------------------------------------------
(* VulkanCore: frame pacing *)

MAX_FRAMES_IN_FLIGHT == 2

\* Bounds of the frame exploration
MaxImages == 3
MaxFrames == 4

Slots == 0..(MAX_FRAMES_IN_FLIGHT - 1)

ImageCounts == 2..MaxImages

Images == DOMAIN swapchain_images

\* create_sync_objects: semaphores unsignaled, fences created SIGNALED
create_sync_objects ==
    [image_available |-> [s \in Slots |-> FALSE],
     render_finished |-> [s \in Slots |-> FALSE],
     fences |-> [s \in Slots |-> TRUE]]

\* VulkanCore::new for a swapchain of n images: one command buffer per
\* swapchain image, current_frame 0
VulkanCoreNew(n) ==
    /\ current_frame = 0
    /\ in_flight_fences = create_sync_objects.fences
    /\ image_available_semaphores = create_sync_objects.image_available
    /\ render_finished_semaphores = create_sync_objects.render_finished
    /\ command_buffers = [i \in 0..(n - 1) |-> "initial"]
    /\ swapchain_images = [i \in 0..(n - 1) |-> "free"]
    /\ submitted = <<>>
    /\ presents = <<>>
    /\ fpc = "idle"
    /\ image_index = 0
    /\ frame_index = 0
    /\ frame_ops = <<>>
    /\ entry_point = "render_frame_with_camera_multi"

\* (mutant) begin_frame does not wait for the slot's fence
wait_for_fences_None(fences, slot) == TRUE

\* wait_for_fences(&[in_flight_fences[current_frame]], true, u64::MAX) returns
\* once the fence is signaled
wait_for_fences(fences, slot) == fences[slot]

\* acquire_next_image: the presentation engine may hand out the index of any
\* image the application does not hold; the semaphore tells when it is usable
acquire_next_image(images) == {i \in DOMAIN images : images[i] # "app"}

\* TRUE when a submission of command buffer cb is still executing on the GPU
CbPending(cb) == \E k \in 1..Len(submitted) : submitted[k].cb = cb

\* TRUE when a submission that was handed the fence of slot is still executing
FencePending(slot) == \E k \in 1..Len(submitted) : submitted[k].fence = slot

\* absent handle in a call record
NoHandle == -1

\* one device or queue call: the fence, the semaphores it waits on and signals,
\* the image / command buffer index it names, and whether it succeeded
Call(op, ok, wait, signal, fence, img) ==
    [op |-> op, ok |-> ok, wait |-> wait, signal |-> signal, fence |-> fence, img |-> img]

\* the calls of begin_frame in source order, for an image index img
BeginFrameCalls(slot, img) ==
    <<Call("wait_for_fences", TRUE, NoHandle, NoHandle, slot, NoHandle),
      Call("acquire_next_image", TRUE, NoHandle, slot, NoHandle, img),
      Call("reset_fences", TRUE, NoHandle, NoHandle, slot, NoHandle),
      Call("reset_command_buffer", TRUE, NoHandle, NoHandle, NoHandle, img)>>

\* eprintln!("Failed to begin frame") / eprintln!("Failed to end frame")
LogError(which) == Call(which, TRUE, NoHandle, NoHandle, NoHandle, NoHandle)

\* the calls up to and including the k-th, which fails and is followed by the
\* caller's error log
FailAt(calls, k, img, which) ==
    [j \in 1..k |-> IF j < k THEN calls[j]
                    ELSE [calls[j] EXCEPT !.ok = FALSE,
                                          !.img = IF calls[j].op = "acquire_next_image"
                                                  THEN NoHandle ELSE img]]
    \o <<LogError(which)>>

\* the calls begin_frame makes for an outcome: every ? returns at the first error
BeginFrameOps(outcome, slot, img) ==
    LET calls == BeginFrameCalls(slot, img)
    IN IF outcome = "ok" THEN calls
       ELSE IF outcome = "acquire_err" THEN FailAt(calls, 2, img, "log_begin_error")
            ELSE IF outcome = "reset_fences_err" THEN FailAt(calls, 3, img, "log_begin_error")
                 ELSE FailAt(calls, 4, img, "log_begin_error")

\* render_frame_* entry points: all run begin_frame, record, end_frame and log a
\* begin_frame error; render_frame_fluid discards the result of end_frame
EntryPoints == {"render_frame_with_camera_multi", "render_frame_fluid"}

BeginOutcomes == {"ok", "acquire_err", "reset_fences_err", "reset_command_buffer_err"}

\* VulkanCore::begin_frame: wait fence, acquire, reset fence, reset command buffer
begin_frame(entry, outcome, img) ==
    /\ fpc = "idle"
    /\ entry_point' = entry
    /\ frame_index < MaxFrames
    /\ wait_for_fences(in_flight_fences, current_frame)
    /\ IF outcome = "acquire_err"
       THEN /\ img = 0
            /\ UNCHANGED <<swapchain_images, image_available_semaphores, in_flight_fences,
                           command_buffers, image_index, fpc>>
       ELSE /\ img \in acquire_next_image(swapchain_images)
            /\ swapchain_images' = [swapchain_images EXCEPT ![img] = "app"]
            /\ image_available_semaphores' =
                    [image_available_semaphores EXCEPT ![current_frame] = TRUE]
            /\ in_flight_fences' =
                    IF outcome = "reset_fences_err" THEN in_flight_fences
                    ELSE [in_flight_fences EXCEPT ![current_frame] = FALSE]
            /\ command_buffers' =
                    IF outcome = "ok" THEN [command_buffers EXCEPT ![img] = "initial"]
                    ELSE command_buffers
            /\ image_index' = IF outcome = "ok" THEN img ELSE image_index
            /\ fpc' = IF outcome = "ok" THEN "record" ELSE "idle"
    /\ frame_ops' = BeginFrameOps(outcome, current_frame, img)
    /\ UNCHANGED <<current_frame, render_finished_semaphores, submitted, presents, frame_index>>

\* The caller records the frame's commands into command_buffers[image_index]
record_command_buffer ==
    /\ fpc = "record"
    /\ command_buffers' = [command_buffers EXCEPT ![image_index] = "executable"]
    /\ fpc' = "end"
    /\ frame_ops' = Append(frame_ops,
            Call("record", TRUE, NoHandle, NoHandle, NoHandle, image_index))
    /\ UNCHANGED <<current_frame, in_flight_fences, image_available_semaphores,
                   render_finished_semaphores, swapchain_images, submitted, presents,
                   image_index, frame_index, entry_point>>

EndOutcomes == {"ok", "submit_err", "present_err"}

\* (mutant) the submit signals the render-finished semaphore of the other slot
SubmitInfo_OtherSlot(slot, img) ==
    Call("queue_submit", TRUE, slot, (slot + 1) % MAX_FRAMES_IN_FLIGHT, slot, img)

\* queue_submit: waits on image_available[current_frame], signals
\* render_finished[current_frame] and the fence in_flight_fences[current_frame]
SubmitInfo(slot, img) == Call("queue_submit", TRUE, slot, slot, slot, img)

\* queue_present: waits on the submit's signal semaphores
PresentInfo(slot, img) ==
    Call("queue_present", TRUE, SubmitInfo(slot, img).signal, NoHandle, NoHandle, img)

\* current_frame = (current_frame + 1) % MAX_FRAMES_IN_FLIGHT
Advance == Call("advance", TRUE, NoHandle, NoHandle, NoHandle, NoHandle)

\* the calls end_frame makes for an outcome
EndFrameOps(outcome, slot, img) ==
    IF outcome = "submit_err"
    THEN <<[SubmitInfo(slot, img) EXCEPT !.ok = FALSE]>>
    ELSE IF outcome = "present_err"
         THEN <<SubmitInfo(slot, img), [PresentInfo(slot, img) EXCEPT !.ok = FALSE]>>
         ELSE <<SubmitInfo(slot, img), PresentInfo(slot, img), Advance>>

\* what the entry point does with the result of end_frame:
\* if let Err(e) = ... { eprintln!(...) }, or let _ = ... in render_frame_fluid
HandleEndResult(entry, outcome) ==
    IF outcome # "ok" /\ entry # "render_frame_fluid"
    THEN <<LogError("log_end_error")>>
    ELSE <<>>

\* (mutant) the slot index advances whether or not the frame was presented
SlotAfterEnd_Always(outcome, slot) == (slot + 1) % MAX_FRAMES_IN_FLIGHT

\* self.current_frame = (self.current_frame + 1) % MAX_FRAMES_IN_FLIGHT, the
\* last statement of end_frame: reached only when submit and present succeeded
SlotAfterEnd(outcome, slot) ==
    IF outcome = "ok" THEN (slot + 1) % MAX_FRAMES_IN_FLIGHT ELSE slot

\* VulkanCore::end_frame: submit (wait image_available, signal render_finished and
\* the fence), present (wait render_finished), advance current_frame
end_frame(outcome) ==
    /\ fpc = "end"
    /\ fpc' = "idle"
    /\ current_frame' = SlotAfterEnd(outcome, current_frame)
    /\ IF outcome = "submit_err"
       THEN UNCHANGED <<submitted, presents, swapchain_images, frame_index>>
       ELSE /\ submitted' = Append(submitted,
                    [cb |-> image_index, slot |-> current_frame, frame |-> frame_index,
                     wait |-> SubmitInfo(current_frame, image_index).wait,
                     signal |-> SubmitInfo(current_frame, image_index).signal,
                     fence |-> SubmitInfo(current_frame, image_index).fence])
            /\ IF outcome = "present_err"
               THEN UNCHANGED <<presents, swapchain_images, frame_index>>
               ELSE /\ presents' = Append(presents,
                            [image |-> image_index, slot |-> current_frame,
                             wait |-> PresentInfo(current_frame, image_index).wait])
                    /\ swapchain_images' = [swapchain_images EXCEPT ![image_index] = "queued"]
                    /\ frame_index' = frame_index + 1
    /\ frame_ops' = frame_ops \o EndFrameOps(outcome, current_frame, image_index)
                              \o HandleEndResult(entry_point, outcome)
    /\ UNCHANGED <<in_flight_fences, image_available_semaphores, render_finished_semaphores,
                   command_buffers, image_index, entry_point>>

\* The GPU finishes the oldest submission: it has consumed the acquire semaphore,
\* and signals the render-finished semaphore and the fence it was handed
gpu_complete ==
    /\ Len(submitted) > 0
    /\ LET sub == Head(submitted)
       IN /\ image_available_semaphores' =
                  [image_available_semaphores EXCEPT ![sub.wait] = FALSE]
          /\ render_finished_semaphores' =
                  [render_finished_semaphores EXCEPT ![sub.signal] = TRUE]
          /\ in_flight_fences' = [in_flight_fences EXCEPT ![sub.fence] = TRUE]
    /\ submitted' = Tail(submitted)
    /\ UNCHANGED <<current_frame, command_buffers, swapchain_images, presents, fpc,
                   image_index, frame_index, frame_ops, entry_point>>

\* The presentation engine executes the oldest present request once its wait
\* semaphore is signaled, and takes the image back
present_execute ==
    /\ Len(presents) > 0
    /\ LET p == Head(presents)
       IN /\ render_finished_semaphores[p.wait]
          /\ render_finished_semaphores' =
                  [render_finished_semaphores EXCEPT ![p.wait] = FALSE]
          /\ swapchain_images' =
                  IF swapchain_images[p.image] = "queued"
                  THEN [swapchain_images EXCEPT ![p.image] = "free"]
                  ELSE swapchain_images
    /\ presents' = Tail(presents)
    /\ UNCHANGED <<current_frame, in_flight_fences, image_available_semaphores,
                   command_buffers, submitted, fpc, image_index, frame_index, frame_ops,
                   entry_point>>

-----------------------------------------------------------------------------
(* VulkanRenderer: mesh registry *)

\* Bounds of the registry exploration
MaxMeshes == 2
MaxTransforms == 2
MaxInstances == 2

NoName == "none"

PipelineNames == {"default", "wire"}

\* index counts of the mesh data handed to the add calls and to replace_mesh
AddIndexCounts == {6}
ReplaceIndexCounts == {3}

\* Mat4::from_translation(position); positions are numbered 1, 2, ...
FromTranslation(pos) == [translation |-> pos]

\* position lists and transform lists tried by the callers
PositionLists == {[k \in 1..n |-> k] : n \in 0..MaxTransforms}
TransformLists == {[k \in 1..n |-> FromTranslation(k)] : n \in 0..MaxTransforms}
InstanceCounts == {0, MaxInstances}

\* Option<MemoryBlock>::None in a mesh entry
NoPoolBlock == 0

\* the vertex data handed to update_mesh_vertices_full; 0 is what the buffer
\* held before
VertexData == {1}

\* nothing uploaded yet
UploadInitial ==
    [ops |-> <<>>, data |-> 0, staging |-> 0, recorded |-> FALSE, pending |-> FALSE,
     vertex |-> 0, freed_pending |-> FALSE, returned |-> FALSE]

\* no destroy or host write has hit a resource in use
NoHazard == [op |-> "none", mesh |-> 0, buffers |-> {}]

\* rejected when no call named an index out of range yet
NoRejected == [op |-> "none", mesh_index |-> 0]

\* memory_pool before any mesh buffer was allocated. live: blocks handed out
\* and not given back; buffers: blocks whose buffer exists; dropped: blocks held
\* by a MeshEntry that went out of scope; double_free: a block that was not
\* live was passed to free_buffer
PoolBlocksInitial == [live |-> {}, buffers |-> {}, dropped |-> {}, double_free |-> FALSE]

\* blocks are named after the registry slot and the buffer they are allocated
\* for: 1 vertex, 2 index, 3 instance
BlockOf(slot, field) == 3 * slot + field

\* create_buffer_pooled: a new buffer and MemoryPoolManager::allocate_buffer,
\* which returns a block bound to it
AllocateBuffer(blocks, b) ==
    [blocks EXCEPT !.live = @ \cup {b}, !.buffers = @ \cup {b}]

\* device.destroy_buffer of the buffer bound to block b, when the buffer has one
DestroyBuffer(blocks, b) ==
    IF b = NoPoolBlock THEN blocks ELSE [blocks EXCEPT !.buffers = @ \ {b}]

\* if let Some(block) = ... { self.memory_pool.free_buffer(block) }
FreeBuffer(blocks, b) ==
    IF b = NoPoolBlock THEN blocks
    ELSE [blocks EXCEPT !.live = @ \ {b}, !.double_free = @ \/ b \notin blocks.live]

\* the blocks a mesh entry refers to
HeldBlocks(mesh) ==
    {mesh.vertex_memory_block, mesh.index_memory_block, mesh.instance_memory_block}
        \ {NoPoolBlock}

\* a MeshEntry goes out of scope: MeshEntry has no Drop, so the blocks it
\* holds that are still live stay live
DropEntry(blocks, mesh) ==
    [blocks EXCEPT !.dropped = @ \cup (HeldBlocks(mesh) \cap blocks.live)]

\* the cleared entry written by remove_mesh and used as placeholder by replace_mesh.
\* An Option field is TRUE when it is Some; a memory block field holds the
\* number of its pool block, NoPoolBlock when None; stored_matrices is the content of
\* joint_matrices and joint_data the content of the memory behind
\* joint_buffer_memory (empty when there is none).
EmptyMeshEntry ==
    [vertex_buffer |-> FALSE, vertex_buffer_memory |-> FALSE,
     vertex_memory_block |-> NoPoolBlock,
     index_buffer |-> FALSE, index_buffer_memory |-> FALSE,
     index_memory_block |-> NoPoolBlock,
     index_count |-> 0, transforms |-> <<>>, pipeline_name |-> NoName,
     texture_resources |-> FALSE,
     instance_buffer |-> FALSE, instance_buffer_memory |-> FALSE,
     instance_memory_block |-> NoPoolBlock, instance_count |-> 0, use_instancing |-> FALSE,
     instance_capacity |-> 0, instance_stored |-> 0,
     base_color |-> "white", joint_matrices |-> FALSE, joint_buffer |-> FALSE,
     joint_buffer_memory |-> FALSE, is_skinned |-> FALSE,
     skinned_descriptor_pool |-> FALSE, skinned_descriptor_set_layout |-> FALSE,
     skinned_descriptor_sets |-> FALSE, camera_uniform_buffer |-> FALSE,
     camera_uniform_memory |-> FALSE,
     stored_matrices |-> <<>>, joint_data |-> <<>>]

\* new_multi_mesh: "default" registered and selected, no meshes
RendererInitial ==
    /\ meshes = <<>>
    /\ pipelines = {"default"}
    /\ current_pipeline = "default"
    /\ graphics_pipeline = "default"
    /\ cmds = <<>>
    /\ returned = {}
    /\ removed = {}
    /\ pool_blocks = PoolBlocksInitial
    /\ rejected = NoRejected
    /\ gpu_reads = <<>>
    /\ hazard = NoHazard
    /\ upload = UploadInitial

\* get_mesh_count
get_mesh_count == Len(meshes)

\* self.meshes.push(entry); Ok(self.meshes.len() - 1)
PushMesh(entry) ==
    /\ meshes' = Append(meshes, entry)
    /\ returned' = returned \cup {Len(meshes') - 1}

\* how add_mesh and add_mesh_instanced may end: Ok, or the error of the first
\* step that fails. For each buffer the steps are the staging buffer, the
\* creation of the pooled buffer with its block, and the copy into it; the
\* instance buffer is created and then mapped.
AddMeshOutcomes ==
    {"ok", "vertex_staging_err", "vertex_buffer_err", "vertex_copy_err",
     "index_staging_err", "index_buffer_err", "index_copy_err"}
AddInstancedOutcomes == AddMeshOutcomes \cup {"instance_buffer_err", "map_memory_err"}

\* the buffers (1 vertex, 2 index, 3 instance) whose block allocate_buffer has
\* handed out when the call returns with an error
AllocatedBeforeError(outcome) ==
    IF outcome \in {"vertex_staging_err", "vertex_buffer_err"} THEN {}
    ELSE IF outcome \in {"vertex_copy_err", "index_staging_err", "index_buffer_err"} THEN {1}
    ELSE IF outcome \in {"index_copy_err", "instance_buffer_err"} THEN {1, 2}
    ELSE IF outcome = "map_memory_err" THEN {1, 2, 3}
    ELSE {}

\* blocks that were allocated by add calls that failed are numbered downwards
\* from -1
LeakedBlocks(blocks) == {b \in blocks.live : b < 0}

\* the `?` return of a failed add call: the buffers and blocks created so far
\* are local values that go out of scope; MemoryBlock has no Drop and nothing
\* calls free_buffer, so the blocks stay allocated and no entry holds them
AfterFailedAdd(blocks, outcome) ==
    LET first == Cardinality(LeakedBlocks(blocks))
        lost == {-(first + f) : f \in AllocatedBeforeError(outcome)}
    IN [blocks EXCEPT !.live = @ \cup lost, !.buffers = @ \cup lost,
                      !.dropped = @ \cup lost]

\* add_mesh: pooled vertex and index buffers, no transforms, not instanced;
\* the entry is pushed after every fallible step
add_mesh(index_count, outcome) ==
    /\ fpc = "idle"
    /\ outcome \in AddMeshOutcomes
    /\ IF outcome = "ok"
       THEN /\ pool_blocks' = AllocateBuffer(AllocateBuffer(pool_blocks,
                                    BlockOf(Len(meshes), 1)), BlockOf(Len(meshes), 2))
            /\ PushMesh([EmptyMeshEntry EXCEPT
                    !.vertex_buffer = TRUE, !.vertex_memory_block = BlockOf(Len(meshes), 1),
                    !.index_buffer = TRUE, !.index_memory_block = BlockOf(Len(meshes), 2),
                    !.index_count = index_count])
       ELSE /\ pool_blocks' = AfterFailedAdd(pool_blocks, outcome)
            /\ UNCHANGED <<meshes, returned>>
    /\ UNCHANGED <<pipelines, current_pipeline, graphics_pipeline, cmds, removed, fpc, image_index>>

\* add_mesh_instanced: pooled vertex, index and instance buffers, GPU
\* instancing; the entry is pushed after every fallible step
add_mesh_instanced(index_count, n, pipeline_name, outcome) ==
    /\ fpc = "idle"
    /\ outcome \in AddInstancedOutcomes
    /\ IF outcome = "ok"
       THEN /\ pool_blocks' = AllocateBuffer(AllocateBuffer(AllocateBuffer(pool_blocks,
                                    BlockOf(Len(meshes), 1)), BlockOf(Len(meshes), 2)),
                                    BlockOf(Len(meshes), 3))
            /\ PushMesh([EmptyMeshEntry EXCEPT
                    !.vertex_buffer = TRUE, !.vertex_memory_block = BlockOf(Len(meshes), 1),
                    !.index_buffer = TRUE, !.index_memory_block = BlockOf(Len(meshes), 2),
                    !.index_count = index_count, !.pipeline_name = pipeline_name,
                    !.instance_buffer = TRUE, !.instance_memory_block = BlockOf(Len(meshes), 3),
                    !.instance_count = n, !.use_instancing = TRUE,
                    !.instance_capacity = n, !.instance_stored = n])
       ELSE /\ pool_blocks' = AfterFailedAdd(pool_blocks, outcome)
            /\ UNCHANGED <<meshes, returned>>
    /\ UNCHANGED <<pipelines, current_pipeline, graphics_pipeline, cmds, removed, fpc, image_index>>

\* size_of::<Mat4>() * 128: number of matrices the joint buffer holds
JOINT_CAPACITY == 128

\* 4x4 matrices are numbered; ZeroMatrix is the all-zero matrix
ZeroMatrix == 0

\* lengths and contents of the joint-matrix lists handed in by the callers
JointLengths == {1, 2, JOINT_CAPACITY + 1}
JointLists == {[k \in 1..n |-> 1000 * n + k] : n \in JointLengths}

\* what the memory of a newly created buffer may hold: it is not initialised
GarbageMatrices == {ZeroMatrix, 9999}

\* create_buffer(joint_buffer_size): 128 entries of uninitialised memory
FreshJointBuffer(garbage) == [k \in 1..JOINT_CAPACITY |-> garbage]

\* (mutant) the write clears the entries behind the list
WriteJoints_ZeroPad(data, joint_matrices) ==
    [k \in 1..JOINT_CAPACITY |->
        IF k <= Len(joint_matrices) THEN joint_matrices[k] ELSE ZeroMatrix]

\* for (i, mat) in joint_matrices { if i >= 128 { break; } data.add(i).write(mat) }
WriteJoints(data, joint_matrices) ==
    [k \in 1..JOINT_CAPACITY |->
        IF k <= Len(joint_matrices) THEN joint_matrices[k] ELSE data[k]]

\* stored_matrices[i] = mat for i < stored_matrices.len()
StoreJoints(stored_matrices, joint_matrices) ==
    [k \in 1..Len(stored_matrices) |->
        IF k <= Len(joint_matrices) THEN joint_matrices[k] ELSE stored_matrices[k]]

\* add_skinned_mesh_instanced: directly allocated buffers, joint and camera
\* uniform buffers, descriptor sets, GPU instancing
add_skinned_mesh_instanced(index_count, n, pipeline_name, joint_matrices, garbage) ==
    /\ fpc = "idle"
    /\ PushMesh([EmptyMeshEntry EXCEPT
            !.vertex_buffer = TRUE, !.vertex_buffer_memory = TRUE,
            !.index_buffer = TRUE, !.index_buffer_memory = TRUE,
            !.index_count = index_count, !.pipeline_name = pipeline_name,
            !.instance_buffer = TRUE, !.instance_buffer_memory = TRUE,
            !.instance_count = n, !.use_instancing = TRUE,
            !.instance_capacity = n, !.instance_stored = n,
            !.joint_matrices = TRUE, !.joint_buffer = TRUE, !.joint_buffer_memory = TRUE,
            !.is_skinned = TRUE, !.skinned_descriptor_pool = TRUE,
            !.skinned_descriptor_set_layout = TRUE, !.skinned_descriptor_sets = TRUE,
            !.camera_uniform_buffer = TRUE, !.camera_uniform_memory = TRUE,
            !.stored_matrices = joint_matrices,
            !.joint_data = WriteJoints(FreshJointBuffer(garbage), joint_matrices)])
    /\ UNCHANGED <<pool_blocks, pipelines, current_pipeline, graphics_pipeline, cmds, removed, fpc, image_index>>

\* (mutant) the new entry keeps the old entry's block fields
ReplacedEntry_KeepBlocks(old_mesh, index_count) ==
    [old_mesh EXCEPT
        !.vertex_buffer = TRUE, !.vertex_buffer_memory = TRUE,
        !.index_buffer = TRUE, !.index_buffer_memory = TRUE,
        !.index_count = index_count]

\* (mutant) the new entry starts without transforms
ReplacedEntry_NoTransforms(old_mesh, index_count) ==
    [old_mesh EXCEPT
        !.vertex_buffer = TRUE, !.vertex_buffer_memory = TRUE,
        !.vertex_memory_block = NoPoolBlock,
        !.index_buffer = TRUE, !.index_buffer_memory = TRUE,
        !.index_memory_block = NoPoolBlock,
        !.index_count = index_count, !.transforms = <<>>]

\* the entry built by a successful replace_mesh: new directly allocated vertex
\* and index buffers, every other field taken from the old entry
ReplacedEntry(old_mesh, index_count) ==
    [old_mesh EXCEPT
        !.vertex_buffer = TRUE, !.vertex_buffer_memory = TRUE,
        !.vertex_memory_block = NoPoolBlock,
        !.index_buffer = TRUE, !.index_buffer_memory = TRUE,
        !.index_memory_block = NoPoolBlock,
        !.index_count = index_count]

ReplaceOutcomes == {"ok", "device_wait_idle_err", "create_buffer_err"}

\* replace_mesh, the release of the old vertex and index buffers: each buffer
\* is destroyed, then its memory is freed directly or its block goes back to
\* the pool
ReleaseOld(blocks, old_mesh) ==
    LET v == DestroyBuffer(blocks, old_mesh.vertex_memory_block)
        vf == IF old_mesh.vertex_buffer_memory THEN v
              ELSE FreeBuffer(v, old_mesh.vertex_memory_block)
        i == DestroyBuffer(vf, old_mesh.index_memory_block)
    IN IF old_mesh.index_buffer_memory THEN i
       ELSE FreeBuffer(i, old_mesh.index_memory_block)

\* replace_mesh: the entry is swapped for the placeholder first; an error
\* return leaves the placeholder in the slot and drops old_mesh with whatever
\* it still holds. device_wait_idle fails before anything is released,
\* buffer creation after the old vertex and index buffers were released.
replace_mesh(mesh_index, index_count, outcome) ==
    /\ fpc = "idle"
    /\ IF mesh_index >= Len(meshes)
       THEN UNCHANGED <<meshes, pool_blocks>>
       ELSE LET old_mesh == meshes[mesh_index + 1]
            IN /\ meshes' = [meshes EXCEPT ![mesh_index + 1] =
                        IF outcome = "ok" THEN ReplacedEntry(old_mesh, index_count)
                        ELSE EmptyMeshEntry]
               /\ pool_blocks' =
                    IF outcome = "device_wait_idle_err" THEN DropEntry(pool_blocks, old_mesh)
                    ELSE IF outcome = "create_buffer_err"
                         THEN DropEntry(ReleaseOld(pool_blocks, old_mesh), old_mesh)
                         ELSE ReleaseOld(pool_blocks, old_mesh)
    /\ UNCHANGED <<pipelines, current_pipeline, graphics_pipeline, cmds, returned, removed,
                   fpc, image_index>>

\* (mutant) remove_mesh takes the entry out of the vector
RemoveEntry_Shift(ms, mesh_index) == RemoveAt(ms, mesh_index + 1)

\* the registry after remove_mesh: the slot is overwritten in place
RemoveEntry(ms, mesh_index) == [ms EXCEPT ![mesh_index + 1] = EmptyMeshEntry]

\* remove_mesh, the release of the entry's buffers: vertex and index buffers
\* are destroyed, then every block the entry holds goes back to the pool
ReleaseAll(blocks, mesh) ==
    LET v == DestroyBuffer(blocks, mesh.vertex_memory_block)
        i == DestroyBuffer(v, mesh.index_memory_block)
        vf == FreeBuffer(i, mesh.vertex_memory_block)
        xf == FreeBuffer(vf, mesh.index_memory_block)
        n == IF mesh.instance_buffer THEN DestroyBuffer(xf, mesh.instance_memory_block) ELSE xf
    IN FreeBuffer(n, mesh.instance_memory_block)

\* remove_mesh: destroy the entry's resources and clear the slot
remove_mesh(mesh_index) ==
    /\ fpc = "idle"
    /\ IF mesh_index >= Len(meshes)
       THEN UNCHANGED <<meshes, removed, pool_blocks>>
       ELSE /\ pool_blocks' = ReleaseAll(pool_blocks, meshes[mesh_index + 1])
            /\ meshes' = RemoveEntry(meshes, mesh_index)
            /\ removed' = removed \cup {mesh_index}
    /\ UNCHANGED <<pipelines, current_pipeline, graphics_pipeline, cmds, returned,
                   fpc, image_index>>

\* update_mesh_transforms
update_mesh_transforms(mesh_index, transforms) ==
    /\ fpc = "idle"
    /\ IF mesh_index < Len(meshes)
       THEN meshes' = [meshes EXCEPT ![mesh_index + 1].transforms = transforms]
       ELSE UNCHANGED meshes
    /\ UNCHANGED <<pool_blocks, pipelines, current_pipeline, graphics_pipeline, cmds, returned, removed,
                   fpc, image_index>>

\* update_mesh_instances: positions become translation transforms
update_mesh_instances(mesh_index, positions) ==
    /\ fpc = "idle"
    /\ IF mesh_index < Len(meshes)
       THEN meshes' = [meshes EXCEPT ![mesh_index + 1].transforms =
                            [k \in 1..Len(positions) |-> FromTranslation(positions[k])]]
       ELSE UNCHANGED meshes
    /\ UNCHANGED <<pool_blocks, pipelines, current_pipeline, graphics_pipeline, cmds, returned, removed,
                   fpc, image_index>>

\* (mutant) the count follows what the buffer holds: it changes only with a
\* write, and a write stops at the capacity
InstanceCountAfter_Stored(mesh, n, map_ok) ==
    IF mesh.instance_buffer_memory /\ map_ok
    THEN (IF n <= mesh.instance_capacity THEN n ELSE mesh.instance_capacity)
    ELSE mesh.instance_count

\* mesh.instance_count = instance_positions.len() as u32, before anything else
InstanceCountAfter(mesh, n, map_ok) == n

\* the number of positions the instance buffer holds after the call: the copy
\* happens only when the entry owns its instance memory directly and
\* map_memory succeeded; the buffer holds no more than it was created for
InstanceStoredAfter(mesh, n, map_ok) ==
    IF mesh.instance_buffer_memory /\ map_ok
    THEN (IF n <= mesh.instance_capacity THEN n ELSE mesh.instance_capacity)
    ELSE mesh.instance_stored

\* update_mesh_instance_buffer: sets instance_count to the number of positions,
\* then copies the positions when the entry has instance_buffer_memory; the
\* buffer is not resized
update_mesh_instance_buffer(mesh_index, n, map_ok) ==
    /\ fpc = "idle"
    /\ IF mesh_index >= Len(meshes)
       THEN UNCHANGED meshes
       ELSE LET mesh == meshes[mesh_index + 1]
            IN meshes' = [meshes EXCEPT ![mesh_index + 1] =
                    [mesh EXCEPT !.instance_count = InstanceCountAfter(mesh, n, map_ok),
                                 !.instance_stored = InstanceStoredAfter(mesh, n, map_ok)]]
    /\ UNCHANGED <<pool_blocks, pipelines, current_pipeline, graphics_pipeline, cmds, returned, removed,
                   fpc, image_index>>

\* set_mesh_pipeline
set_mesh_pipeline(mesh_index, pipeline_name) ==
    /\ fpc = "idle"
    /\ IF mesh_index < Len(meshes)
       THEN meshes' = [meshes EXCEPT ![mesh_index + 1].pipeline_name = pipeline_name]
       ELSE UNCHANGED meshes
    /\ UNCHANGED <<pool_blocks, pipelines, current_pipeline, graphics_pipeline, cmds, returned, removed,
                   fpc, image_index>>

\* colours handed to set_mesh_color
Colors == {"white", "red"}

\* set_mesh_color
set_mesh_color(mesh_index, color) ==
    /\ fpc = "idle"
    /\ IF mesh_index < Len(meshes)
       THEN meshes' = [meshes EXCEPT ![mesh_index + 1].base_color = color]
       ELSE UNCHANGED meshes
    /\ UNCHANGED <<pool_blocks, pipelines, current_pipeline, graphics_pipeline, cmds, returned,
                   removed, fpc, image_index>>

\* byte sizes of the vertex data handed to update_mesh_vertices_full
VertexSizes == {20 * MB}

\* outcomes tried: success, a failing staging buffer, a failing queue submit
VertexUploadOutcomes == {"ok", "create_buffer_err", "queue_submit_err"}

\* (mutant) the transfer without the wait for the queue
UploadCalls_NoWait ==
    <<"get_staging_buffer", "map_memory", "copy_nonoverlapping", "unmap_memory",
      "allocate_command_buffers", "begin_command_buffer", "cmd_copy_buffer",
      "end_command_buffer", "queue_submit", "free_command_buffers">>

\* the device and queue calls of update_mesh_vertices_full, in source order
UploadCalls ==
    <<"get_staging_buffer", "map_memory", "copy_nonoverlapping", "unmap_memory",
      "allocate_command_buffers", "begin_command_buffer", "cmd_copy_buffer",
      "end_command_buffer", "queue_submit", "queue_wait_idle", "free_command_buffers">>

\* the effect of one call: copy_nonoverlapping fills the staging memory,
\* cmd_copy_buffer records the copy, queue_submit hands it to the graphics
\* queue, queue_wait_idle returns when the queue has executed it (the copy
\* reads the staging buffer when it executes), free_command_buffers releases
\* the one-shot command buffer
UploadStep(u, call) ==
    LET v == [u EXCEPT !.ops = Append(@, call)]
    IN  CASE call = "copy_nonoverlapping" -> [v EXCEPT !.staging = u.data]
          [] call = "cmd_copy_buffer" -> [v EXCEPT !.recorded = TRUE]
          [] call = "queue_submit" -> [v EXCEPT !.pending = u.recorded]
          [] call = "queue_wait_idle" ->
                [v EXCEPT !.pending = FALSE,
                          !.vertex = IF u.pending THEN u.staging ELSE u.vertex]
          [] call = "free_command_buffers" ->
                [v EXCEPT !.recorded = FALSE, !.freed_pending = u.pending]
          [] OTHER -> v

\* the call whose expect() panics under an outcome, "none" when all succeed
FailedCall(outcome) ==
    IF outcome = "ok" THEN "none"
    ELSE IF outcome = "queue_submit_err" THEN "queue_submit"
    ELSE "get_staging_buffer"

RECURSIVE RunUpload(_, _, _)
\* the calls made in order up to the one that panics; the function returns
\* after the last call
RunUpload(u, calls, failed) ==
    IF calls = <<>> THEN [u EXCEPT !.returned = TRUE]
    ELSE IF Head(calls) = failed THEN [u EXCEPT !.ops = Append(@, Head(calls))]
    ELSE RunUpload(UploadStep(u, Head(calls)), Tail(calls), failed)

\* (mutant) update_mesh_vertices_full with the index check after the staging
\* fetch: indexing self.meshes out of range panics
update_mesh_vertices_full_Unchecked(mesh_index, vertex_size, outcome) ==
    /\ fpc = "idle"
    /\ get_staging_buffer(vertex_size, IF outcome \in StagingOutcomes THEN outcome ELSE "ok")
    /\ UNCHANGED upload
    /\ fpc' = IF outcome = "ok" /\ mesh_index < Len(meshes) THEN "idle" ELSE "aborted"
    /\ UNCHANGED <<meshes, pool_blocks, pipelines, current_pipeline, graphics_pipeline, cmds,
                   returned, removed, image_index>>

\* update_mesh_vertices_full: the index check comes first; then the staging
\* buffer is fetched and the data copied into the vertex buffer with a one-shot
\* command buffer. Every failing step is an expect(): the process panics.
update_mesh_vertices_full(mesh_index, vertex_size, outcome) ==
    /\ fpc = "idle"
    /\ IF mesh_index >= Len(meshes)
       THEN UNCHANGED <<stagingVars, fpc>>
       ELSE /\ get_staging_buffer(vertex_size,
                    IF outcome \in StagingOutcomes THEN outcome ELSE "ok")
            /\ \E data \in VertexData :
                    upload' = RunUpload([UploadInitial EXCEPT !.data = data], UploadCalls,
                                        FailedCall(outcome))
            /\ fpc' = IF outcome = "ok" THEN "idle" ELSE "aborted"
    /\ UNCHANGED <<meshes, pool_blocks, pipelines, current_pipeline, graphics_pipeline, cmds,
                   returned, removed, image_index>>

\* update_mesh_joint_matrices: stored matrices and the mapped joint buffer are
\* overwritten entry by entry; a failed map_memory skips the buffer write
update_mesh_joint_matrices(mesh_index, joint_matrices, map_ok) ==
    /\ fpc = "idle"
    /\ IF mesh_index >= Len(meshes)
       THEN UNCHANGED meshes
       ELSE LET mesh == meshes[mesh_index + 1]
            IN IF ~mesh.is_skinned \/ ~mesh.joint_buffer \/ ~mesh.joint_buffer_memory
               THEN UNCHANGED meshes
               ELSE meshes' = [meshes EXCEPT ![mesh_index + 1] =
                        [mesh EXCEPT
                            !.stored_matrices =
                                IF mesh.joint_matrices
                                THEN StoreJoints(mesh.stored_matrices, joint_matrices)
                                ELSE mesh.stored_matrices,
                            !.joint_data =
                                IF map_ok THEN WriteJoints(mesh.joint_data, joint_matrices)
                                ELSE mesh.joint_data]]
    /\ UNCHANGED <<pool_blocks, pipelines, current_pipeline, graphics_pipeline, cmds, returned, removed,
                   fpc, image_index>>

SkinnedJointOutcomes == {"ok", "create_buffer_err", "map_memory_err"}

\* update_skinned_mesh_joints: stores the list, marks the entry skinned, creates
\* the joint buffer when the entry has none, then writes the mapped buffer
update_skinned_mesh_joints(mesh_index, joint_matrices, outcome, garbage) ==
    /\ fpc = "idle"
    /\ IF mesh_index >= Len(meshes)
       THEN UNCHANGED meshes
       ELSE LET mesh == meshes[mesh_index + 1]
                stored == [mesh EXCEPT !.joint_matrices = TRUE,
                                       !.stored_matrices = joint_matrices,
                                       !.is_skinned = TRUE]
                created == IF stored.joint_buffer THEN stored
                           ELSE [stored EXCEPT !.joint_buffer = TRUE,
                                               !.joint_buffer_memory = TRUE,
                                               !.joint_data = FreshJointBuffer(garbage)]
            IN meshes' = [meshes EXCEPT ![mesh_index + 1] =
                    IF ~mesh.joint_buffer /\ outcome = "create_buffer_err" THEN stored
                    ELSE IF outcome = "map_memory_err" \/ ~created.joint_buffer_memory
                         THEN created
                         ELSE [created EXCEPT
                                !.joint_data = WriteJoints(created.joint_data, joint_matrices)]]
    /\ UNCHANGED <<pool_blocks, pipelines, current_pipeline, graphics_pipeline, cmds, returned, removed,
                   fpc, image_index>>

\* set_current_pipeline: a registered name becomes current and its pipeline and
\* layout are copied into the compatibility fields graphics_pipeline /
\* pipeline_layout; an unknown name is an error and changes nothing
set_current_pipeline(name) ==
    /\ fpc = "idle"
    /\ IF name \in pipelines
       THEN /\ current_pipeline' = name
            /\ graphics_pipeline' = name
       ELSE UNCHANGED <<current_pipeline, graphics_pipeline>>
    /\ UNCHANGED <<pool_blocks, meshes, pipelines, cmds, returned, removed, fpc, image_index>>

\* set_active_pipeline: alias of set_current_pipeline
set_active_pipeline(name) == set_current_pipeline(name)

\* add_pipeline: self.pipelines.insert(name, ...)
add_pipeline(name) ==
    /\ fpc = "idle"
    /\ pipelines' = pipelines \cup {name}
    /\ UNCHANGED <<pool_blocks, meshes, current_pipeline, graphics_pipeline, cmds, returned, removed,
                   fpc, image_index>>

-----------------------------------------------------------------------------
\* outcomes of building a pipeline: PipelineBuilder::new or build() may fail
AddPipelineOutcomes == {"ok", "build_err"}

\* (mutant) a failed build takes the name out of the registry
RegistryAfterAdd_RemoveOnError(ps, name, outcome) ==
    IF outcome = "ok" THEN ps \cup {name} ELSE ps \ {name}

\* self.pipelines.insert(name, ...) is reached only when every step before it
\* succeeded
RegistryAfterAdd(ps, name, outcome) ==
    IF outcome = "ok" THEN ps \cup {name} ELSE ps

\* add_pipeline_with_texture_and_winding, reached from add_pipeline and
\* add_pipeline_with_texture
add_pipeline_with_texture_and_winding(name, outcome) ==
    /\ fpc = "idle"
    /\ pipelines' = RegistryAfterAdd(pipelines, name, outcome)
    /\ UNCHANGED <<pool_blocks, meshes, current_pipeline, graphics_pipeline, cmds, returned,
                   removed, fpc, image_index>>

-----------------------------------------------------------------------------

(* VulkanRenderer: recording one frame *)

\* Option<String> None of the bound-pipeline tracker
Unbound == "unbound"

\* skip rule at the top of the mesh loop
Skipped(mesh) ==
    \/ ~mesh.use_instancing /\ mesh.transforms = <<>>
    \/ mesh.use_instancing /\ mesh.instance_count = 0

\* mesh.pipeline_name ... unwrap_or("default")
ActualPipelineName(mesh) ==
    IF mesh.pipeline_name = NoName THEN "default" ELSE mesh.pipeline_name

\* the pipeline handle bound for a name: the registry entry, else the
\* renderer's graphics_pipeline field
PipelineFor(name) == IF name \in pipelines THEN name ELSE graphics_pipeline

\* (mutant) the pipeline is bound for every mesh
NeedsBind_Always(current_pipeline_name, actual_pipeline_name) == TRUE

\* Switch pipeline if needed
NeedsBind(current_pipeline_name, actual_pipeline_name) ==
    current_pipeline_name # actual_pipeline_name

\* descriptor set bound for a mesh: skinned set, else the mesh texture
DescriptorBind(idx, mesh) ==
    IF mesh.is_skinned
    THEN IF mesh.skinned_descriptor_sets
         THEN <<[cmd |-> "bind_descriptor_sets", mesh |-> idx, set |-> "skinned"]>>
         ELSE <<>>
    ELSE IF mesh.texture_resources
         THEN <<[cmd |-> "bind_descriptor_sets", mesh |-> idx, set |-> "texture"]>>
         ELSE <<>>

DrawIndexed(idx, index_count, instance_count) ==
    [cmd |-> "draw_indexed", mesh |-> idx, index_count |-> index_count,
     instance_count |-> instance_count]

\* (mutant) one draw of a single instance per instance
InstancedCommands_PerInstance(idx, mesh) ==
    <<[cmd |-> "bind_vertex_buffers", mesh |-> idx, binding |-> 0],
      [cmd |-> "bind_index_buffer", mesh |-> idx]>>
    \o [k \in 1..mesh.instance_count |-> DrawIndexed(idx, mesh.index_count, 1)]

\* TRUE GPU INSTANCING PATH: binds, one push-constant block, one draw
InstancedCommands(idx, mesh) ==
    <<[cmd |-> "bind_vertex_buffers", mesh |-> idx, binding |-> 0]>>
    \o (IF mesh.instance_buffer
        THEN <<[cmd |-> "bind_vertex_buffers", mesh |-> idx, binding |-> 1]>>
        ELSE <<>>)
    \o <<[cmd |-> "bind_index_buffer", mesh |-> idx]>>
    \o DescriptorBind(idx, mesh)
    \o <<[cmd |-> "push_constants", mesh |-> idx,
          model |-> IF mesh.is_skinned THEN "time" ELSE "identity"]>>
    \o <<DrawIndexed(idx, mesh.index_count, mesh.instance_count)>>

\* push constants and draw for each transform
RECURSIVE TransformDraws(_, _, _)
TransformDraws(idx, mesh, k) ==
    IF k > Len(mesh.transforms) THEN <<>>
    ELSE <<[cmd |-> "push_constants", mesh |-> idx, model |-> mesh.transforms[k]],
           DrawIndexed(idx, mesh.index_count, 1)>>
         \o TransformDraws(idx, mesh, k + 1)

\* (mutant) the transforms are drawn by one instanced draw
IndividualCommands_OneDraw(idx, mesh) ==
    <<[cmd |-> "bind_vertex_buffers", mesh |-> idx, binding |-> 0],
      [cmd |-> "bind_index_buffer", mesh |-> idx]>>
    \o DescriptorBind(idx, mesh)
    \o <<[cmd |-> "push_constants", mesh |-> idx, model |-> Head(mesh.transforms)],
         DrawIndexed(idx, mesh.index_count, Len(mesh.transforms))>>

\* INDIVIDUAL DRAW CALLS PATH
IndividualCommands(idx, mesh) ==
    <<[cmd |-> "bind_vertex_buffers", mesh |-> idx, binding |-> 0],
      [cmd |-> "bind_index_buffer", mesh |-> idx]>>
    \o DescriptorBind(idx, mesh)
    \o TransformDraws(idx, mesh, 1)

\* the mesh loop of record_command_buffer_multi_mesh_with_egui, from the k-th
\* entry on, with the currently bound pipeline name
RECURSIVE RecordMeshes(_, _)
RecordMeshes(k, current_pipeline_name) ==
    IF k > Len(meshes) THEN <<>>
    ELSE LET mesh == meshes[k]
             actual_pipeline_name == ActualPipelineName(mesh)
         IN IF Skipped(mesh) THEN RecordMeshes(k + 1, current_pipeline_name)
            ELSE (IF NeedsBind(current_pipeline_name, actual_pipeline_name)
                  THEN <<[cmd |-> "bind_pipeline", mesh |-> k - 1,
                          name |-> actual_pipeline_name,
                          pipeline |-> PipelineFor(actual_pipeline_name)]>>
                  ELSE <<>>)
                 \o (IF mesh.use_instancing THEN InstancedCommands(k - 1, mesh)
                     ELSE IndividualCommands(k - 1, mesh))
                 \o RecordMeshes(k + 1, actual_pipeline_name)

\* render_frame_with_camera_multi up to the end of recording: begin_frame
\* returned an image and the mesh loop has filled the command buffer
render_frame_record ==
    /\ fpc = "idle"
    /\ cmds' = RecordMeshes(1, Unbound)
    /\ fpc' = "end"
    /\ UNCHANGED <<pool_blocks, meshes, pipelines, current_pipeline, graphics_pipeline, returned, removed,
                   image_index>>

\* render_frame_with_camera_multi, end_frame: the recorded buffer is handed to
\* the queue and the call returns
render_frame_end ==
    /\ fpc = "end"
    /\ cmds' = <<>>
    /\ fpc' = "idle"
    /\ UNCHANGED <<pool_blocks, meshes, pipelines, current_pipeline, graphics_pipeline, returned, removed,
                   image_index>>

-----------------------------------------------------------------------------
(* VulkanRenderer: recording one fluid frame *)

\* skip rule at the top of the fluid mesh loop
FluidSkipped(mesh) == ~mesh.use_instancing /\ mesh.transforms = <<>>

\* mesh.pipeline_name ... unwrap_or("water")
FluidPipelineName(mesh) ==
    IF mesh.pipeline_name = NoName THEN "water" ELSE mesh.pipeline_name

\* the sky background, drawn first when a pipeline named "sky" is registered
SkyCommands ==
    IF "sky" \in pipelines
    THEN <<[cmd |-> "bind_pipeline", mesh |-> NoHandle, name |-> "sky", pipeline |-> "sky"],
           [cmd |-> "push_constants", mesh |-> NoHandle, model |-> "fluid"],
           [cmd |-> "draw", mesh |-> NoHandle, vertex_count |-> 3, instance_count |-> 1]>>
    ELSE <<>>

\* binds, fluid push constants and the single draw of one mesh (the descriptor
\* set of a textured pipeline is left out: textured_pipelines is not modelled)
FluidCommands(idx, mesh) ==
    <<[cmd |-> "bind_pipeline", mesh |-> idx, name |-> FluidPipelineName(mesh),
       pipeline |-> FluidPipelineName(mesh)],
      [cmd |-> "push_constants", mesh |-> idx, model |-> "fluid"],
      [cmd |-> "bind_vertex_buffers", mesh |-> idx, binding |-> 0],
      [cmd |-> "bind_index_buffer", mesh |-> idx],
      DrawIndexed(idx, mesh.index_count,
                  IF mesh.use_instancing /\ mesh.instance_buffer THEN mesh.instance_count
                  ELSE Max(Len(mesh.transforms), 1))>>

RECURSIVE RecordMeshesFluid(_)

\* (mutant) a pipeline missing from the registry ends the mesh loop
PipelineNotFound_Return(k) == <<>>

\* a pipeline missing from the registry: warning and continue
PipelineNotFound(k) == RecordMeshesFluid(k + 1)

\* the mesh loop of record_command_buffer_fluid, from the k-th entry on
RecordMeshesFluid(k) ==
    IF k > Len(meshes) THEN <<>>
    ELSE LET mesh == meshes[k]
         IN IF FluidSkipped(mesh) THEN RecordMeshesFluid(k + 1)
            ELSE IF FluidPipelineName(mesh) \notin pipelines THEN PipelineNotFound(k)
            ELSE FluidCommands(k - 1, mesh) \o RecordMeshesFluid(k + 1)

\* render_frame_fluid up to the end of recording
render_frame_fluid_record ==
    /\ fpc = "idle"
    /\ cmds' = SkyCommands \o RecordMeshesFluid(1)
    /\ fpc' = "end_fluid"
    /\ UNCHANGED <<pool_blocks, meshes, pipelines, current_pipeline, graphics_pipeline,
                   returned, removed, image_index>>

\* render_frame_fluid, end_frame: the recorded buffer is handed to the queue
\* and the call returns
render_frame_fluid_end ==
    /\ fpc = "end_fluid"
    /\ cmds' = <<>>
    /\ fpc' = "idle"
    /\ UNCHANGED <<pool_blocks, meshes, pipelines, current_pipeline, graphics_pipeline,
                   returned, removed, image_index>>

-----------------------------------------------------------------------------

(* VulkanRenderer: recording one frame with egui *)

\* record_command_buffer_with_push_data_and_egui on a renderer built by
\* new_multi_mesh: buffers and textures are None, so the graphics pipeline is
\* bound, the identity push constants are set, and the default draw mode
\* (Simple) issues no draw; no entry of the registry is looked at
LegacyCommands ==
    <<[cmd |-> "bind_pipeline", mesh |-> NoHandle, name |-> graphics_pipeline,
       pipeline |-> graphics_pipeline],
      [cmd |-> "push_constants", mesh |-> NoHandle, model |-> "identity"]>>

\* !self.meshes.is_empty() && self.meshes.iter().any(|m| !m.transforms.is_empty())
AnyTransforms == meshes # <<>> /\ \E k \in 1..Len(meshes) : meshes[k].transforms # <<>>

\* render_frame_with_egui up to the end of recording: the multi-mesh loop when
\* some entry has transforms, the single-mesh recording otherwise
render_frame_with_egui_record ==
    /\ fpc = "idle"
    /\ cmds' = IF AnyTransforms THEN RecordMeshes(1, Unbound) ELSE LegacyCommands
    /\ fpc' = "end_egui"
    /\ UNCHANGED <<pool_blocks, meshes, pipelines, current_pipeline, graphics_pipeline,
                   returned, removed, image_index>>

\* render_frame_with_egui, end_frame: the recorded buffer is handed to the
\* queue and the call returns
render_frame_with_egui_end ==
    /\ fpc = "end_egui"
    /\ cmds' = <<>>
    /\ fpc' = "idle"
    /\ UNCHANGED <<pool_blocks, meshes, pipelines, current_pipeline, graphics_pipeline,
                   returned, removed, image_index>>

-----------------------------------------------------------------------------

(* Specifications *)

frameRest == <<current_frame, in_flight_fences, image_available_semaphores,
               render_finished_semaphores, command_buffers, swapchain_images,
               submitted, presents, frame_index, frame_ops, entry_point>>

InitPool == PoolInitial /\ ManagerNew /\ VulkanCoreNew(2) /\ RendererInitial

NextPool ==
    \/ (\E size \in Sizes, alignment \in Alignments, grant \in BOOLEAN :
            allocate(size, alignment, grant)) /\ UNCHANGED <<frameVars, meshVars, stagingVars, observerVars>>
    \/ (\E k \in 1..MaxLive : free(k)) /\ UNCHANGED <<frameVars, meshVars, stagingVars, observerVars>>

SpecPool == InitPool /\ [][NextPool]_vars

\* Fragmentation exploration: two blocks that fill a chunk, and a request
\* larger than each of them
FragmentSizes == {128 * MB, 200 * MB}

NextFragment ==
    \/ (\E size \in FragmentSizes, alignment \in Alignments, grant \in BOOLEAN :
            allocate(size, alignment, grant))
            /\ UNCHANGED <<frameVars, meshVars, stagingVars, observerVars>>
    \/ (\E k \in 1..MaxLive : free(k))
            /\ UNCHANGED <<frameVars, meshVars, stagingVars, observerVars>>

SpecFragment == InitPool /\ [][NextFragment]_vars

\* Staging exploration: upload paths asking for the staging buffer
InitStaging ==
    /\ PoolInitial
    /\ allocation_size = MinChunkSize
    /\ ManagerNew
    /\ VulkanCoreNew(2)
    /\ RendererInitial

\* MemoryPoolManager::destroy, called once when the renderer is dropped: the
\* staging buffer and memory held in the fields are destroyed and freed; the
\* fields are not cleared
manager_destroy ==
    /\ staging_call.result # "destroyed"
    /\ staging_device' = DestroyOld(staging_device, staging_buffer, staging_memory)
    /\ staging_call' = [staging_call EXCEPT !.result = "destroyed"]
    /\ UNCHANGED <<staging_buffer, staging_memory, staging_size>>

NextStaging ==
    \/ (staging_call.result # "destroyed"
            /\ \E required_size \in RequiredSizes, outcome \in StagingOutcomes :
                    get_staging_buffer(required_size, outcome))
            /\ UNCHANGED <<poolVars, frameVars, meshVars, observerVars, upload>>
    \/ manager_destroy /\ UNCHANGED <<poolVars, frameVars, meshVars, observerVars, upload>>

SpecStaging == InitStaging /\ [][NextStaging]_vars

InitFrame ==
    /\ PoolInitial
    /\ ManagerNew
    /\ allocation_size = MinChunkSize
    /\ \E n \in ImageCounts : VulkanCoreNew(n)
    /\ RendererInitial

NextFrame ==
    \/ (\E entry \in EntryPoints, outcome \in BeginOutcomes, img \in Images :
            begin_frame(entry, outcome, img))
            /\ UNCHANGED <<poolVars, stagingVars, meshVars, observerVars>>
    \/ record_command_buffer /\ UNCHANGED <<poolVars, stagingVars, meshVars, observerVars>>
    \/ (\E outcome \in EndOutcomes : end_frame(outcome)) /\ UNCHANGED <<poolVars, stagingVars, meshVars, observerVars>>
    \/ gpu_complete /\ UNCHANGED <<poolVars, stagingVars, meshVars, observerVars>>
    \/ present_execute /\ UNCHANGED <<poolVars, stagingVars, meshVars, observerVars>>

SpecFrame == InitFrame /\ [][NextFrame]_vars

\* the GPU and the presentation engine, as steps of the frame exploration
GpuStep == gpu_complete /\ UNCHANGED <<poolVars, stagingVars, meshVars, observerVars>>
PresentStep == present_execute /\ UNCHANGED <<poolVars, stagingVars, meshVars, observerVars>>

\* The frame exploration under the assumption that the GPU eventually completes
\* every submission on the graphics queue and the presentation engine every
\* present request; nothing is assumed about the application's calls.
SpecFrameFair == InitFrame /\ [][NextFrame]_vars /\ WF_vars(GpuStep) /\ WF_vars(PresentStep)

InitMesh ==
    /\ PoolInitial
    /\ ManagerNew
    /\ allocation_size = MinChunkSize
    /\ VulkanCoreNew(2)
    /\ RendererInitial

MeshIndices == 0..MaxMeshes

\* the replace_mesh outcomes tried in the registry exploration
MeshReplaceOutcomes == {"ok", "create_buffer_err"}

NextMesh ==
    \/ (Len(meshes) < MaxMeshes /\ \E ic \in AddIndexCounts : add_mesh(ic, "ok"))
            /\ UNCHANGED <<poolVars, stagingVars, frameRest, observerVars>>
    \/ (Len(meshes) < MaxMeshes /\ \E ic \in AddIndexCounts, n \in InstanceCounts \ {0},
           name \in PipelineNames \cup {NoName} : add_mesh_instanced(ic, n, name, "ok"))
            /\ UNCHANGED <<poolVars, stagingVars, frameRest, observerVars>>
    \/ (Len(meshes) < MaxMeshes /\ \E ic \in AddIndexCounts, n \in InstanceCounts \ {0},
           name \in PipelineNames \cup {NoName} :
                add_skinned_mesh_instanced(ic, n, name, <<1, 2>>, ZeroMatrix))
            /\ UNCHANGED <<poolVars, stagingVars, frameRest, observerVars>>
    \/ (\E i \in MeshIndices, ic \in ReplaceIndexCounts, outcome \in MeshReplaceOutcomes :
            replace_mesh(i, ic, outcome)) /\ UNCHANGED <<poolVars, stagingVars, frameRest, observerVars>>
    \/ (\E i \in MeshIndices : remove_mesh(i)) /\ UNCHANGED <<poolVars, stagingVars, frameRest, observerVars>>
    \/ (\E i \in MeshIndices, t \in TransformLists : update_mesh_transforms(i, t))
            /\ UNCHANGED <<poolVars, stagingVars, frameRest, observerVars>>
    \/ (\E i \in MeshIndices, p \in PositionLists : update_mesh_instances(i, p))
            /\ UNCHANGED <<poolVars, stagingVars, frameRest, observerVars>>
    \/ (\E i \in MeshIndices, n \in InstanceCounts : update_mesh_instance_buffer(i, n, TRUE))
            /\ UNCHANGED <<poolVars, stagingVars, frameRest, observerVars>>
    \/ (\E i \in MeshIndices, name \in PipelineNames : set_mesh_pipeline(i, name))
            /\ UNCHANGED <<poolVars, stagingVars, frameRest, observerVars>>
    \/ (\E name \in PipelineNames : add_pipeline(name)) /\ UNCHANGED <<poolVars, stagingVars, frameRest, observerVars>>
    \/ render_frame_record /\ UNCHANGED <<poolVars, stagingVars, frameRest, observerVars>>
    \/ render_frame_end /\ UNCHANGED <<poolVars, stagingVars, frameRest, observerVars>>

SpecMesh == InitMesh /\ [][NextMesh]_vars

\* Skinning exploration: a short registry of skinned and plain meshes, the two
\* joint-update calls
MaxJointMeshes == 1

NextJoint ==
    \/ (Len(meshes) < MaxJointMeshes /\ \E ic \in AddIndexCounts : add_mesh(ic, "ok"))
            /\ UNCHANGED <<poolVars, stagingVars, frameRest, observerVars>>
    \/ (Len(meshes) < MaxJointMeshes /\ \E ic \in AddIndexCounts, J \in JointLists,
           garbage \in GarbageMatrices :
                add_skinned_mesh_instanced(ic, 1, "default", J, garbage))
            /\ UNCHANGED <<poolVars, stagingVars, frameRest, observerVars>>
    \/ (\E i \in MeshIndices, J \in JointLists, map_ok \in BOOLEAN :
            update_mesh_joint_matrices(i, J, map_ok)) /\ UNCHANGED <<poolVars, stagingVars, frameRest, observerVars>>
    \/ (\E i \in MeshIndices, J \in JointLists, outcome \in SkinnedJointOutcomes,
           garbage \in GarbageMatrices : update_skinned_mesh_joints(i, J, outcome, garbage))
            /\ UNCHANGED <<poolVars, stagingVars, frameRest, observerVars>>
    \/ (\E i \in MeshIndices : remove_mesh(i)) /\ UNCHANGED <<poolVars, stagingVars, frameRest, observerVars>>

SpecJoint == InitMesh /\ [][NextJoint]_vars

\* a pipeline name that is never registered
UnregisteredName == "ghost"

\* Pipeline exploration: registering and selecting pipelines, meshes that name
\* registered and unregistered pipelines
NextPipeline ==
    \/ (Len(meshes) < MaxMeshes /\ \E ic \in AddIndexCounts : add_mesh(ic, "ok"))
            /\ UNCHANGED <<poolVars, stagingVars, frameRest, observerVars>>
    \/ (\E i \in MeshIndices, t \in TransformLists : update_mesh_transforms(i, t))
            /\ UNCHANGED <<poolVars, stagingVars, frameRest, observerVars>>
    \/ (\E i \in MeshIndices, name \in PipelineNames \cup {UnregisteredName} :
            set_mesh_pipeline(i, name)) /\ UNCHANGED <<poolVars, stagingVars, frameRest, observerVars>>
    \/ (\E name \in PipelineNames : add_pipeline(name)) /\ UNCHANGED <<poolVars, stagingVars, frameRest, observerVars>>
    \/ (\E name \in PipelineNames \cup {UnregisteredName} : set_current_pipeline(name))
            /\ UNCHANGED <<poolVars, stagingVars, frameRest, observerVars>>
    \/ (\E name \in PipelineNames \cup {UnregisteredName} : set_active_pipeline(name))
            /\ UNCHANGED <<poolVars, stagingVars, frameRest, observerVars>>
    \/ render_frame_record /\ UNCHANGED <<poolVars, stagingVars, frameRest, observerVars>>
    \/ render_frame_end /\ UNCHANGED <<poolVars, stagingVars, frameRest, observerVars>>
    \/ (\E i \in MeshIndices, outcome \in SkinnedJointOutcomes :
            update_skinned_mesh_joints(i, <<1, 2>>, outcome, ZeroMatrix))
            /\ UNCHANGED <<poolVars, stagingVars, frameRest, observerVars>>
    \/ render_frame_fluid_record /\ UNCHANGED <<poolVars, stagingVars, frameRest, observerVars>>
    \/ render_frame_fluid_end /\ UNCHANGED <<poolVars, stagingVars, frameRest, observerVars>>
    \/ (Len(meshes) < MaxMeshes /\ \E ic \in AddIndexCounts :
            add_mesh_instanced(ic, MaxInstances, "wire", "ok"))
            /\ UNCHANGED <<poolVars, stagingVars, frameRest, observerVars>>
    \/ (\E i \in MeshIndices : update_mesh_instance_buffer(i, 0, TRUE))
            /\ UNCHANGED <<poolVars, stagingVars, frameRest, observerVars>>

SpecPipeline == InitMesh /\ [][NextPipeline]_vars

\* Index-check exploration: every call that takes a mesh index, with indices
\* inside and outside the registry
MaxUpdateMeshes == 1

UpdateIndices == 0..MaxUpdateMeshes

\* the arguments handed to the calls here
UpdateJoints == <<1, 2>>
UpdateTransforms == <<FromTranslation(1)>>
UpdatePositions == <<1>>

\* the observer notes a call whose index is not below get_mesh_count
Observe(op, mesh_index) ==
    /\ rejected' = IF mesh_index >= get_mesh_count
                   THEN [op |-> op, mesh_index |-> mesh_index]
                   ELSE rejected
    /\ UNCHANGED <<gpu_reads, hazard>>

NextUpdate ==
    \/ (Len(meshes) < MaxUpdateMeshes /\ \E ic \in AddIndexCounts : add_mesh(ic, "ok"))
            /\ UNCHANGED <<poolVars, stagingVars, frameRest, observerVars>>
    \/ (Len(meshes) < MaxUpdateMeshes /\ \E ic \in AddIndexCounts :
            add_mesh_instanced(ic, MaxInstances, "default", "ok"))
            /\ UNCHANGED <<poolVars, stagingVars, frameRest, observerVars>>
    \/ (\E i \in UpdateIndices :
            update_mesh_transforms(i, UpdateTransforms)
            /\ Observe("update_mesh_transforms", i))
            /\ UNCHANGED <<poolVars, stagingVars, frameRest>>
    \/ (\E i \in UpdateIndices :
            update_mesh_instances(i, UpdatePositions) /\ Observe("update_mesh_instances", i))
            /\ UNCHANGED <<poolVars, stagingVars, frameRest>>
    \/ (\E i \in UpdateIndices, map_ok \in BOOLEAN :
            update_mesh_joint_matrices(i, UpdateJoints, map_ok)
            /\ Observe("update_mesh_joint_matrices", i))
            /\ UNCHANGED <<poolVars, stagingVars, frameRest>>
    \/ (\E i \in UpdateIndices, size \in VertexSizes, outcome \in VertexUploadOutcomes :
            update_mesh_vertices_full(i, size, outcome)
            /\ Observe("update_mesh_vertices_full", i))
            /\ UNCHANGED <<poolVars, frameRest>>
    \/ (\E i \in UpdateIndices :
            update_mesh_instance_buffer(i, 1, TRUE) /\ Observe("update_mesh_instance_buffer", i))
            /\ UNCHANGED <<poolVars, stagingVars, frameRest>>
    \/ (\E i \in UpdateIndices, outcome \in SkinnedJointOutcomes :
            update_skinned_mesh_joints(i, UpdateJoints, outcome, ZeroMatrix)
            /\ Observe("update_skinned_mesh_joints", i))
            /\ UNCHANGED <<poolVars, stagingVars, frameRest>>
    \/ (\E i \in UpdateIndices :
            set_mesh_pipeline(i, "wire") /\ Observe("set_mesh_pipeline", i))
            /\ UNCHANGED <<poolVars, stagingVars, frameRest>>
    \/ (\E i \in UpdateIndices :
            set_mesh_color(i, "red") /\ Observe("set_mesh_color", i))
            /\ UNCHANGED <<poolVars, stagingVars, frameRest>>
    \/ (\E i \in UpdateIndices, ic \in ReplaceIndexCounts, outcome \in ReplaceOutcomes :
            replace_mesh(i, ic, outcome) /\ Observe("replace_mesh", i))
            /\ UNCHANGED <<poolVars, stagingVars, frameRest>>
    \/ (\E i \in UpdateIndices : remove_mesh(i) /\ Observe("remove_mesh", i))
            /\ UNCHANGED <<poolVars, stagingVars, frameRest>>

SpecUpdate == InitMesh /\ [][NextUpdate]_vars

\* Ownership exploration: the four calls that allocate and release mesh
\* buffers, every outcome of replace_mesh
NextOwner ==
    \/ (Len(meshes) < MaxMeshes /\ \E ic \in AddIndexCounts : add_mesh(ic, "ok"))
            /\ UNCHANGED <<poolVars, stagingVars, frameRest, observerVars>>
    \/ (Len(meshes) < MaxMeshes /\ \E ic \in AddIndexCounts, n \in InstanceCounts \ {0} :
            add_mesh_instanced(ic, n, NoName, "ok"))
            /\ UNCHANGED <<poolVars, stagingVars, frameRest, observerVars>>
    \/ (\E i \in MeshIndices, ic \in ReplaceIndexCounts, outcome \in ReplaceOutcomes :
            replace_mesh(i, ic, outcome))
            /\ UNCHANGED <<poolVars, stagingVars, frameRest, observerVars>>
    \/ (\E i \in MeshIndices : remove_mesh(i))
            /\ UNCHANGED <<poolVars, stagingVars, frameRest, observerVars>>

SpecOwner == InitMesh /\ [][NextOwner]_vars

\* Registry exploration: pipelines are built and selected under several names
RegistryNames == PipelineNames \cup {"sky", "water", "skinned"}

\* the observer notes a call that returned an error
ObserveError(op, failed) ==
    /\ rejected' = IF failed THEN [op |-> op, mesh_index |-> NoHandle] ELSE rejected
    /\ UNCHANGED <<gpu_reads, hazard>>

NextRegistry ==
    \/ (\E name \in RegistryNames, outcome \in AddPipelineOutcomes :
            add_pipeline_with_texture_and_winding(name, outcome)
            /\ ObserveError("add_pipeline", outcome # "ok"))
            /\ UNCHANGED <<poolVars, stagingVars, frameRest>>
    \/ (\E name \in RegistryNames \cup {UnregisteredName} :
            set_current_pipeline(name)
            /\ ObserveError("set_current_pipeline", name \notin pipelines))
            /\ UNCHANGED <<poolVars, stagingVars, frameRest>>
    \/ (\E name \in RegistryNames \cup {UnregisteredName} :
            set_active_pipeline(name)
            /\ ObserveError("set_active_pipeline", name \notin pipelines))
            /\ UNCHANGED <<poolVars, stagingVars, frameRest>>

SpecRegistry == InitMesh /\ [][NextRegistry]_vars

\* Draw-list exploration: a longer registry, fewer kinds of call
MaxDrawMeshes == 3

DrawIndices == 0..(MaxDrawMeshes - 1)

NextDraw ==
    \/ (Len(meshes) < MaxDrawMeshes /\ \E ic \in AddIndexCounts : add_mesh(ic, "ok"))
            /\ UNCHANGED <<poolVars, stagingVars, frameRest, observerVars>>
    \/ (Len(meshes) < MaxDrawMeshes /\ \E ic \in AddIndexCounts, n \in InstanceCounts \ {0} :
            add_mesh_instanced(ic, n, NoName, "ok")) /\ UNCHANGED <<poolVars, stagingVars, frameRest, observerVars>>
    \/ (\E i \in DrawIndices, t \in TransformLists : update_mesh_transforms(i, t))
            /\ UNCHANGED <<poolVars, stagingVars, frameRest, observerVars>>
    \/ (\E i \in DrawIndices, name \in PipelineNames : set_mesh_pipeline(i, name))
            /\ UNCHANGED <<poolVars, stagingVars, frameRest, observerVars>>
    \/ (\E name \in PipelineNames : add_pipeline(name)) /\ UNCHANGED <<poolVars, stagingVars, frameRest, observerVars>>
    \/ render_frame_record /\ UNCHANGED <<poolVars, stagingVars, frameRest, observerVars>>
    \/ render_frame_end /\ UNCHANGED <<poolVars, stagingVars, frameRest, observerVars>>

SpecDraw == InitMesh /\ [][NextDraw]_vars

-----------------------------------------------------------------------------
(* Frames in flight and the resources of the meshes they draw *)

\* Bounds of the exploration of frames in flight
MaxFlightMeshes == 1
MaxFlightFrames == 2

\* the buffers and pools behind a mesh entry
MeshBuffers(mesh) ==
    {b \in {"vertex", "index", "instance", "joint", "camera", "descriptor_pool"} :
        CASE b = "vertex" -> mesh.vertex_buffer
          [] b = "index" -> mesh.index_buffer
          [] b = "instance" -> mesh.instance_buffer
          [] b = "joint" -> mesh.joint_buffer
          [] b = "camera" -> mesh.camera_uniform_buffer
          [] b = "descriptor_pool" -> mesh.skinned_descriptor_pool}

\* what the GPU reads when it executes a recorded command: the bound vertex,
\* instance and index buffers; through a skinned descriptor set, allocated
\* from the mesh's descriptor pool, the joint buffer (binding 0) and the camera
\* uniform buffer (binding 1)
ReadsOf(c) ==
    IF c.cmd = "bind_vertex_buffers"
    THEN {[mesh |-> c.mesh, buffer |-> IF c.binding = 0 THEN "vertex" ELSE "instance"]}
    ELSE IF c.cmd = "bind_index_buffer" THEN {[mesh |-> c.mesh, buffer |-> "index"]}
    ELSE IF c.cmd = "bind_descriptor_sets" /\ c.set = "skinned"
         THEN {[mesh |-> c.mesh, buffer |-> b] : b \in {"joint", "camera", "descriptor_pool"}}
         ELSE {}

\* everything a recorded command buffer reads
FrameReads(cs) == UNION {ReadsOf(cs[n]) : n \in 1..Len(cs)}

\* the buffers of slot mesh_index that a submission still on the queue reads
InFlight(mesh_index) ==
    {r.buffer : r \in {x \in UNION {gpu_reads[k] : k \in 1..Len(gpu_reads)} :
                            x.mesh = mesh_index}}

\* a destroy or host write of buffers of a slot, by op: recorded when a frame
\* still on the queue reads one of them. A cleared slot has no buffer that a
\* frame reads.
Touch(op, mesh_index, buffers) ==
    hazard' = IF mesh_index < Len(meshes) /\ mesh_index \notin removed
                 /\ buffers \cap InFlight(mesh_index) # {}
              THEN [op |-> op, mesh |-> mesh_index,
                    buffers |-> buffers \cap InFlight(mesh_index)]
              ELSE hazard

\* the slots whose camera uniform buffer the mesh loop rewrites while recording
CameraWritten ==
    {k - 1 : k \in {j \in 1..Len(meshes) :
        /\ ~Skipped(meshes[j])
        /\ meshes[j].use_instancing
        /\ meshes[j].is_skinned
        /\ meshes[j].camera_uniform_memory}}

\* remove_mesh destroys every buffer and pool of the entry
FlightRemove(mesh_index) ==
    /\ remove_mesh(mesh_index)
    /\ Touch("remove_mesh", mesh_index,
             IF mesh_index < Len(meshes) THEN MeshBuffers(meshes[mesh_index + 1]) ELSE {})

\* replace_mesh: device_wait_idle returns when the queue is empty; then the old
\* vertex and index buffers are destroyed
FlightReplace(mesh_index, index_count, outcome) ==
    /\ mesh_index < Len(meshes) => submitted = <<>>
    /\ replace_mesh(mesh_index, index_count, outcome)
    /\ Touch("replace_mesh", mesh_index, {"vertex", "index"})

\* update_mesh_joint_matrices writes the mapped joint buffer
FlightJointMatrices(mesh_index, joint_matrices, map_ok) ==
    /\ update_mesh_joint_matrices(mesh_index, joint_matrices, map_ok)
    /\ Touch("update_mesh_joint_matrices", mesh_index,
             IF mesh_index < Len(meshes) /\ map_ok
                /\ meshes[mesh_index + 1].is_skinned
                /\ meshes[mesh_index + 1].joint_buffer
                /\ meshes[mesh_index + 1].joint_buffer_memory
             THEN {"joint"} ELSE {})

\* update_skinned_mesh_joints writes the mapped joint buffer; a buffer it has
\* just created is read by no frame
FlightSkinnedJoints(mesh_index, joint_matrices, outcome) ==
    /\ update_skinned_mesh_joints(mesh_index, joint_matrices, outcome, ZeroMatrix)
    /\ Touch("update_skinned_mesh_joints", mesh_index,
             IF mesh_index < Len(meshes) /\ outcome = "ok"
                /\ meshes[mesh_index + 1].joint_buffer
                /\ meshes[mesh_index + 1].joint_buffer_memory
             THEN {"joint"} ELSE {})

\* update_mesh_instance_buffer writes the instance buffer when the entry owns
\* its memory directly
FlightInstanceBuffer(mesh_index, n) ==
    /\ update_mesh_instance_buffer(mesh_index, n, TRUE)
    /\ Touch("update_mesh_instance_buffer", mesh_index,
             IF mesh_index < Len(meshes) /\ meshes[mesh_index + 1].instance_buffer_memory
             THEN {"instance"} ELSE {})

\* recording: the mesh loop fills the command buffer and rewrites the camera
\* uniform buffer of every skinned instanced mesh it draws
FlightRecord ==
    /\ record_command_buffer
    /\ cmds' = RecordMeshes(1, Unbound)
    /\ hazard' = IF \E i \in CameraWritten : "camera" \in InFlight(i)
                 THEN [op |-> "record_command_buffer",
                       mesh |-> CHOOSE i \in CameraWritten : "camera" \in InFlight(i),
                       buffers |-> {"camera"}]
                 ELSE hazard
    /\ UNCHANGED <<meshes, pipelines, current_pipeline, graphics_pipeline, returned, removed,
                   pool_blocks, gpu_reads, rejected>>

\* end_frame: the recorded command buffer goes to the graphics queue
FlightEnd ==
    /\ end_frame("ok")
    /\ gpu_reads' = Append(gpu_reads, FrameReads(cmds))
    /\ cmds' = <<>>
    /\ UNCHANGED <<meshes, pipelines, current_pipeline, graphics_pipeline, returned, removed,
                   pool_blocks, hazard, rejected>>

\* the GPU finishes the oldest submission and stops reading its resources
FlightGpu ==
    /\ gpu_complete
    /\ gpu_reads' = Tail(gpu_reads)
    /\ UNCHANGED <<meshVars, hazard, rejected>>

FlightIndices == 0..(MaxFlightMeshes - 1)

\* Frames and registry calls together: frames are begun, recorded, submitted
\* and completed while meshes are added, updated, replaced and removed
\* between them.
NextFlight ==
    \/ (frame_index < MaxFlightFrames
            /\ \E img \in Images : begin_frame("render_frame_with_camera_multi", "ok", img))
            /\ UNCHANGED <<poolVars, stagingVars, meshVars, observerVars>>
    \/ FlightRecord /\ UNCHANGED <<poolVars, stagingVars>>
    \/ FlightEnd /\ UNCHANGED <<poolVars, stagingVars>>
    \/ FlightGpu /\ UNCHANGED <<poolVars, stagingVars>>
    \/ present_execute /\ UNCHANGED <<poolVars, stagingVars, meshVars, observerVars>>
    \/ (Len(meshes) < MaxFlightMeshes /\ \E ic \in AddIndexCounts : add_mesh(ic, "ok"))
            /\ UNCHANGED <<poolVars, stagingVars, frameRest, observerVars>>
    \/ (Len(meshes) < MaxFlightMeshes /\ \E ic \in AddIndexCounts :
            add_skinned_mesh_instanced(ic, 1, "default", UpdateJoints, ZeroMatrix))
            /\ UNCHANGED <<poolVars, stagingVars, frameRest, observerVars>>
    \/ (\E i \in FlightIndices : update_mesh_transforms(i, UpdateTransforms))
            /\ UNCHANGED <<poolVars, stagingVars, frameRest, observerVars>>
    \/ (\E i \in FlightIndices : FlightRemove(i))
            /\ UNCHANGED <<poolVars, stagingVars, frameRest, gpu_reads, rejected>>
    \/ (\E i \in FlightIndices, ic \in ReplaceIndexCounts, outcome \in MeshReplaceOutcomes :
            FlightReplace(i, ic, outcome))
            /\ UNCHANGED <<poolVars, stagingVars, frameRest, gpu_reads, rejected>>
    \/ (\E i \in FlightIndices, map_ok \in BOOLEAN : FlightJointMatrices(i, UpdateJoints, map_ok))
            /\ UNCHANGED <<poolVars, stagingVars, frameRest, gpu_reads, rejected>>
    \/ (\E i \in FlightIndices, outcome \in SkinnedJointOutcomes :
            FlightSkinnedJoints(i, UpdateJoints, outcome))
            /\ UNCHANGED <<poolVars, stagingVars, frameRest, gpu_reads, rejected>>
    \/ (\E i \in FlightIndices : FlightInstanceBuffer(i, 1))
            /\ UNCHANGED <<poolVars, stagingVars, frameRest, gpu_reads, rejected>>

SpecFlight == InitMesh /\ [][NextFlight]_vars

-----------------------------------------------------------------------------

(* Instance buffers *)

\* numbers of positions handed to update_mesh_instance_buffer: fewer than, as
\* many as and more than the buffers were created for
InstanceUpdateCounts == 0..(MaxInstances + 1)

\* Instanced meshes with pooled and with directly allocated instance buffers,
\* their instance buffers updated between frames
NextInstance ==
    \/ (Len(meshes) < MaxMeshes /\ \E ic \in AddIndexCounts, n \in 1..MaxInstances :
            add_mesh_instanced(ic, n, "default", "ok"))
            /\ UNCHANGED <<poolVars, stagingVars, frameRest, observerVars>>
    \/ (Len(meshes) < MaxMeshes /\ \E ic \in AddIndexCounts, n \in 1..MaxInstances :
            add_skinned_mesh_instanced(ic, n, "default", UpdateJoints, ZeroMatrix))
            /\ UNCHANGED <<poolVars, stagingVars, frameRest, observerVars>>
    \/ (\E i \in MeshIndices, n \in InstanceUpdateCounts, map_ok \in BOOLEAN :
            update_mesh_instance_buffer(i, n, map_ok))
            /\ UNCHANGED <<poolVars, stagingVars, frameRest, observerVars>>
    \/ render_frame_record /\ UNCHANGED <<poolVars, stagingVars, frameRest, observerVars>>
    \/ render_frame_end /\ UNCHANGED <<poolVars, stagingVars, frameRest, observerVars>>

SpecInstance == InitMesh /\ [][NextInstance]_vars

-----------------------------------------------------------------------------

(* Frame pacing properties *)

\* C1: frame pacing. While the CPU is past begin_frame of frame n (recording or
\* about to submit), the slot in use is n mod MAX_FRAMES_IN_FLIGHT and no
\* submission that was handed this slot's fence is still executing: the fence
\* last handed to a submission on the slot was signaled before begin_frame
\* returned.
C1_FramePacing ==
    fpc \in {"record", "end"} =>
        /\ current_frame = frame_index % MAX_FRAMES_IN_FLIGHT
        /\ ~FencePending(current_frame)

\* C1 witness: frame n >= 2 is being recorded while the GPU still executes the
\* previous frame.
C1_Witness ==
    /\ fpc = "record"
    /\ frame_index >= 2
    /\ Len(submitted) > 0

\* C2: command-buffer reuse. Whenever begin_frame returns after resetting
\* command_buffers[image_index], no submission of that command buffer is still
\* executing on the GPU.
C2_CommandBufferReuse ==
    [][(fpc = "idle" /\ fpc' = "record") => ~CbPending(image_index')]_vars

-----------------------------------------------------------------------------
\* the calls of one complete frame on slot s with image img, in the order the
\* frame state machine prescribes
FrameOrder(s, img) ==
    <<[op |-> "wait_for_fences", ok |-> TRUE, wait |-> -1, signal |-> -1, fence |-> s, img |-> -1],
      [op |-> "acquire_next_image", ok |-> TRUE, wait |-> -1, signal |-> s, fence |-> -1, img |-> img],
      [op |-> "reset_command_buffer", ok |-> TRUE, wait |-> -1, signal |-> -1, fence |-> -1, img |-> img],
      [op |-> "record", ok |-> TRUE, wait |-> -1, signal |-> -1, fence |-> -1, img |-> img],
      [op |-> "queue_submit", ok |-> TRUE, wait |-> s, signal |-> s, fence |-> s, img |-> img],
      [op |-> "queue_present", ok |-> TRUE, wait |-> s, signal |-> -1, fence |-> -1, img |-> img],
      [op |-> "advance", ok |-> TRUE, wait |-> -1, signal |-> -1, fence |-> -1, img |-> -1]>>

\* the successful calls of the current frame that the state machine names
StateMachineCalls ==
    SelectSeq(frame_ops, LAMBDA c :
        c.ok /\ c.op \notin {"reset_fences", "log_begin_error", "log_end_error"})

\* TRUE when the current frame has advanced the slot
Advanced == \E k \in 1..Len(frame_ops) : frame_ops[k].op = "advance"

\* C13: the calls of every frame occur in the order wait-fence(s), acquire,
\* reset command buffer, record, submit, present, advance, with
\* s = frame_index mod 2: the submit waits on slot s's acquire semaphore and
\* signals slot s's render-complete semaphore and fence, the present waits on
\* that render-complete semaphore, and the slot index advances only after the
\* present.
C13_FrameOrder ==
    LET s == IF Advanced THEN (frame_index - 1) % 2 ELSE frame_index % 2
        calls == StateMachineCalls
    IN /\ \E img \in Images :
            /\ Len(calls) <= Len(FrameOrder(s, img))
            /\ \A k \in 1..Len(calls) : calls[k] = FrameOrder(s, img)[k]
       /\ current_frame = IF Advanced THEN (s + 1) % 2 ELSE s

\* C13 witness: the fourth frame has run to its end on slot 1.
C13_Witness ==
    /\ fpc = "idle"
    /\ frame_index = 4
    /\ Len(StateMachineCalls) = 7
    /\ StateMachineCalls[5].fence = 1
    /\ Advanced

\* position of the failed call in the current frame's calls, 0 when none failed
FailedAt ==
    IF \E k \in 1..Len(frame_ops) : ~frame_ops[k].ok
    THEN CHOOSE k \in 1..Len(frame_ops) : ~frame_ops[k].ok
    ELSE 0

\* the calls begin_frame makes
BeginCalls == {"wait_for_fences", "acquire_next_image", "reset_fences", "reset_command_buffer"}

\* state predicate of C14 on the calls of the current frame
FrameDropped ==
    /\ \A j, k \in 1..Len(frame_ops) : j # k => frame_ops[j].op # frame_ops[k].op
    /\ \A k \in 1..Len(frame_ops) :
          frame_ops[k].op \in {"log_begin_error", "log_end_error"} => FailedAt = k - 1
    /\ FailedAt # 0 =>
          /\ Len(frame_ops) = FailedAt + 1
          /\ frame_ops[FailedAt + 1].op =
                IF frame_ops[FailedAt].op \in BeginCalls THEN "log_begin_error"
                ELSE "log_end_error"
          /\ fpc = "idle"

\* C14: a failing acquire, submit or present is attempted once, its error is
\* returned and logged by the render_frame entry point, and the frame is
\* dropped: no later call of that frame is made, nothing is recorded after a
\* failed begin_frame, and a failed submit queues neither work nor a present
\* and does not advance the slot.
C14_FrameDropped ==
    [][/\ FrameDropped'
       /\ (fpc = "idle" /\ frame_ops' # frame_ops /\ FailedAt' # 0) =>
             /\ fpc' = "idle"
             /\ command_buffers' = command_buffers
             /\ <<submitted', presents', current_frame'>> = <<submitted, presents, current_frame>>
       /\ (fpc = "end" /\ frame_ops' # frame_ops /\ FailedAt' # 0
                /\ frame_ops'[FailedAt'].op = "queue_submit") =>
             <<submitted', presents', current_frame'>> = <<submitted, presents, current_frame>>
       /\ (fpc = "end" /\ frame_ops' # frame_ops /\ FailedAt' # 0
                /\ frame_ops'[FailedAt'].op = "queue_present") =>
             <<presents', current_frame'>> = <<presents, current_frame>>
      ]_vars

-----------------------------------------------------------------------------
(* Memory pool properties *)

\* TRUE when the byte ranges [offset, offset + size) of two blocks intersect
Intersect(a, b) == a.offset < b.offset + b.size /\ b.offset < a.offset + a.size

\* C3: every block returned by allocate(size, alignment) starts at a multiple
\* of alignment.
C3_AlignedOffset ==
    (pool_call.op = "allocate" /\ pool_call.result = "ok") =>
        pool_call.block.offset % pool_call.alignment = 0

\* C3 witness: a block was returned from a region whose start had to be padded
\* (a 3-byte block sits at offset 0, the new block starts at 256).
C3_Witness ==
    /\ pool_call.op = "allocate" /\ pool_call.result = "ok"
    /\ pool_call.alignment = 256
    /\ pool_call.block.offset = 256
    /\ \E k \in 1..Len(live_blocks) :
            /\ live_blocks[k].offset = 0 /\ live_blocks[k].size = 3
            /\ live_blocks[k].allocation_index = pool_call.block.allocation_index

\* C4: no two live blocks of one chunk have intersecting byte ranges.
C4_NoOverlap ==
    \A i, j \in 1..Len(live_blocks) :
        (i < j /\ live_blocks[i].allocation_index = live_blocks[j].allocation_index)
            => ~Intersect(live_blocks[i], live_blocks[j])

\* C4 witness: two live blocks share a chunk and the later one lies below the
\* earlier one, so it was carved from a region that free gave back.
C4_Witness ==
    \E i, j \in 1..Len(live_blocks) :
        /\ i < j
        /\ live_blocks[i].allocation_index = live_blocks[j].allocation_index
        /\ live_blocks[j].offset < live_blocks[i].offset

\* C5: allocate fails only when the device refuses the chunk; a call creates at
\* most one chunk and its retry is served (the recursion ends).
C5_NeverFails ==
    pool_call.op = "allocate" =>
        /\ pool_call.created <= 1
        /\ pool_call.result \in {"ok", "err"}
        /\ pool_call.result = "err" => pool_call.denied
        /\ pool_call.result = "ok" => pool_call.block \in Range(live_blocks)

\* C5 witness: a miss on a non-empty free list grew the pool by one chunk and
\* the request was served from it.
C5_Witness ==
    /\ pool_call.op = "allocate" /\ pool_call.result = "ok"
    /\ pool_call.created = 1
    /\ Len(allocations) >= 2
    /\ pool_call.block.allocation_index = Len(allocations) - 1

\* C6 as claimed: a chunk created on a miss has size
\* max(configured chunk size, requested size).
C6_ChunkSizeClaimed ==
    (pool_call.op = "allocate" /\ pool_call.created = 1) =>
        allocations[Len(allocations)] = Max(allocation_size, pool_call.size)

\* C6 amended: a chunk created on a miss has size max(configured chunk size,
\* requested size rounded up to a multiple of the alignment); the configured
\* chunk size is at least 256 MB; allocate(10 MB, 256) on an empty pool
\* configured with 256 MB creates one 256 MB chunk and carves the block at its
\* start.
C6_ChunkSize ==
    /\ allocation_size >= 256 * MB
    /\ (pool_call.op = "allocate" /\ pool_call.created = 1) =>
            allocations[Len(allocations)] =
                Max(allocation_size, AlignUp(pool_call.size, pool_call.alignment))
    /\ (/\ pool_call.op = "allocate" /\ pool_call.created = 1
        /\ pool_call.size = 10 * MB /\ pool_call.alignment = 256
        /\ allocation_size = 256 * MB /\ Len(allocations) = 1) =>
            /\ allocations = <<256 * MB>>
            /\ pool_call.block.allocation_index = 0
            /\ pool_call.block.offset = 0
            /\ pool_call.block.size = 10 * MB

\* C6 witness: a request above the configured chunk size whose size is not a
\* multiple of its alignment got a chunk of the rounded-up size.
C6_Witness ==
    /\ pool_call.op = "allocate" /\ pool_call.created = 1
    /\ allocations[Len(allocations)] > allocation_size
    /\ allocations[Len(allocations)] > pool_call.size

-----------------------------------------------------------------------------
\* C19: the free regions of a chunk never overlap one another, never overlap a
\* live block, and each lies within its chunk's range [0, chunk size).
C19_FreeRegionsDisjoint ==
    /\ \A i, j \in 1..Len(free_regions) :
          (i < j /\ free_regions[i].allocation_index = free_regions[j].allocation_index)
              => ~Intersect(free_regions[i], free_regions[j])
    /\ \A i \in 1..Len(free_regions), k \in 1..Len(live_blocks) :
          free_regions[i].allocation_index = live_blocks[k].allocation_index
              => ~Intersect(free_regions[i], live_blocks[k])
    /\ \A i \in 1..Len(free_regions) :
          /\ free_regions[i].allocation_index \in 0..(Len(allocations) - 1)
          /\ free_regions[i].offset >= 0
          /\ free_regions[i].size > 0
          /\ free_regions[i].offset + free_regions[i].size
                <= allocations[free_regions[i].allocation_index + 1]

\* C19 witness: a chunk holds a freed region in front of a live block and the
\* remainder region behind it, the live block having been carved with padding.
C19_Witness ==
    \E i, j \in 1..Len(free_regions), k \in 1..Len(live_blocks) :
        /\ free_regions[i].allocation_index = live_blocks[k].allocation_index
        /\ free_regions[j].allocation_index = live_blocks[k].allocation_index
        /\ free_regions[i].offset + free_regions[i].size < live_blocks[k].offset
        /\ live_blocks[k].offset + live_blocks[k].size = free_regions[j].offset

(* Staging buffer properties *)

\* C18: as long as every get_staging_buffer call succeeded: the call returns
\* the existing buffer unchanged when its size covers the request; otherwise
\* the old buffer is destroyed and a new one of size max(required, 16 MB)
\* replaces it. The size never decreases, covers every size requested so far,
\* and at most one staging buffer is live.
C18_StagingBuffer ==
    (staging_call.result = "ok" /\ ~staging_call.failed) =>
        /\ staging_call.old_size >= staging_call.required =>
              /\ staging_call.buffer = staging_call.old_buffer
              /\ staging_size = staging_call.old_size
              /\ ~staging_call.replaced
        /\ staging_call.old_size < staging_call.required =>
              /\ staging_call.replaced
              /\ staging_call.buffer # staging_call.old_buffer
              /\ staging_call.old_buffer \notin staging_device.buffers
              /\ staging_size = Max(staging_call.required, 16 * MB)
        /\ staging_call.buffer = staging_buffer
        /\ staging_size >= staging_call.old_size
        /\ staging_size >= staging_call.max_required
        /\ staging_device.buffers = {staging_buffer}
        /\ staging_device.memories = {staging_memory}

\* C18 witness: a 16 MB staging buffer was destroyed and replaced by a 32 MB
\* one with a new handle.
C18_Witness ==
    /\ staging_call.result = "ok" /\ ~staging_call.failed
    /\ staging_call.replaced
    /\ staging_call.old_size = 16 * MB
    /\ staging_size = 32 * MB
    /\ staging_buffer = 2
    /\ staging_call.old_buffer = 1

-----------------------------------------------------------------------------

(* Mesh registry and draw-list properties *)

\* the calls that name mesh index j
CallOn(j) ==
    \/ remove_mesh(j)
    \/ \E ic \in ReplaceIndexCounts, outcome \in ReplaceOutcomes : replace_mesh(j, ic, outcome)
    \/ \E t \in TransformLists : update_mesh_transforms(j, t)
    \/ \E p \in PositionLists : update_mesh_instances(j, p)
    \/ \E n \in InstanceCounts : update_mesh_instance_buffer(j, n, TRUE)
    \/ \E name \in PipelineNames : set_mesh_pipeline(j, name)

C8_RemovedSlotInert ==
    \A k \in 1..Len(cmds) : cmds[k].mesh \notin removed

\* resolved pipeline names of the meshes the skip rule keeps, in registry order
DrawnNames ==
    LET kept == SelectSeq([k \in 1..Len(meshes) |-> k], LAMBDA k : ~Skipped(meshes[k]))
    IN [j \in 1..Len(kept) |-> ActualPipelineName(meshes[kept[j]])]

\* number of maximal runs of equal consecutive elements
Runs(names) == Cardinality({k \in 1..Len(names) : k = 1 \/ names[k] # names[k - 1]})

CountCmds(kind) == Cardinality({k \in 1..Len(cmds) : cmds[k].cmd = kind})

\* C9: the number of pipeline binds recorded for a frame equals the number of
\* maximal runs of equal consecutive resolved pipeline names among the meshes
\* drawn.
C9_PipelineBinds ==
    fpc = "end" => CountCmds("bind_pipeline") = Runs(DrawnNames)

\* C9 witness: three meshes are drawn with two binds (one run of two meshes
\* and one switch).
C9_Witness ==
    /\ fpc = "end"
    /\ Len(DrawnNames) = 3
    /\ CountCmds("bind_pipeline") = 2

\* draw commands recorded for mesh index idx
DrawsOf(idx) ==
    SelectSeq(cmds, LAMBDA c : c.cmd = "draw_indexed" /\ c.mesh = idx)

\* C10: an instanced mesh with N > 0 instances contributes exactly one indexed
\* draw, with the mesh's index count and instance_count = N.
C10_OneInstancedDraw ==
    fpc = "end" =>
        \A k \in 1..Len(meshes) :
            (meshes[k].use_instancing /\ meshes[k].instance_count > 0) =>
                DrawsOf(k - 1) =
                    <<DrawIndexed(k - 1, meshes[k].index_count, meshes[k].instance_count)>>

\* C10 witness: a frame was recorded with a mesh from add_mesh_instanced that
\* has MaxInstances instances.
C10_Witness ==
    /\ fpc = "end"
    /\ \E k \in 1..Len(meshes) :
            /\ meshes[k].use_instancing /\ meshes[k].instance_memory_block # NoPoolBlock
            /\ meshes[k].instance_count = MaxInstances
            /\ Len(DrawsOf(k - 1)) = 1

\* push-constant and draw commands recorded for mesh index idx, in order
PushAndDrawsOf(idx) ==
    SelectSeq(cmds, LAMBDA c : c.cmd \in {"push_constants", "draw_indexed"} /\ c.mesh = idx)

\* C11: a non-instanced mesh holding N transforms contributes exactly N indexed
\* draws, each with the mesh's index count and instance_count = 1 and each
\* directly preceded by its own push-constant block carrying the transform; a
\* registry holding one 6-index quad with one transform has get_mesh_count = 1
\* and the frame holds exactly one draw, with index_count 6, instance_count 1.
C11_PerTransformDraws ==
    fpc = "end" =>
        /\ \A k \in 1..Len(meshes) :
              ~meshes[k].use_instancing =>
                 LET pd == PushAndDrawsOf(k - 1)
                     n == Len(meshes[k].transforms)
                 IN /\ Len(DrawsOf(k - 1)) = n
                    /\ Len(pd) = 2 * n
                    /\ \A j \in 1..n :
                          /\ pd[2 * j - 1] = [cmd |-> "push_constants", mesh |-> k - 1,
                                              model |-> meshes[k].transforms[j]]
                          /\ pd[2 * j] = DrawIndexed(k - 1, meshes[k].index_count, 1)
        /\ (/\ Len(meshes) = 1 /\ ~meshes[1].use_instancing
            /\ meshes[1].index_count = 6 /\ Len(meshes[1].transforms) = 1) =>
              /\ get_mesh_count = 1
              /\ SelectSeq(cmds, LAMBDA c : c.cmd = "draw_indexed") = <<DrawIndexed(0, 6, 1)>>

\* C11 witness: a frame was recorded with a mesh from add_mesh that holds
\* MaxTransforms transforms and was drawn that many times.
C11_Witness ==
    /\ fpc = "end"
    /\ \E k \in 1..Len(meshes) :
            /\ ~meshes[k].use_instancing /\ meshes[k].vertex_memory_block # NoPoolBlock
            /\ Len(meshes[k].transforms) = MaxTransforms
            /\ Len(DrawsOf(k - 1)) = MaxTransforms

-----------------------------------------------------------------------------
(* Skinning properties *)

\* J truncated to its first 128 entries and zero-padded to 128 entries
TruncatePad(J) ==
    [k \in 1..JOINT_CAPACITY |-> IF k <= Len(J) THEN J[k] ELSE ZeroMatrix]

\* C12: joint round trip. After update_mesh_joint_matrices(index, J) on a
\* skinned mesh whose buffer could be mapped, the 128-entry joint buffer holds
\* J truncated to 128 entries and zero-padded to 128 entries, whatever it held
\* before.
C12_JointRoundTrip ==
    [][\A i \in MeshIndices, J \in JointLists :
          (/\ i < Len(meshes)
           /\ meshes[i + 1].is_skinned /\ meshes[i + 1].joint_buffer
           /\ update_mesh_joint_matrices(i, J, TRUE))
              => meshes'[i + 1].joint_data = TruncatePad(J)
      ]_vars

-----------------------------------------------------------------------------
(* Pipeline fallback properties *)

\* C15: a drawn mesh that names a pipeline missing from the registry is bound
\* with the pipeline (and layout) registered under "default", whatever
\* add_pipeline and set_current_pipeline / set_active_pipeline calls came
\* before.
C15_FallbackIsDefault ==
    fpc = "end" =>
        \A k \in 1..Len(cmds) :
            (cmds[k].cmd = "bind_pipeline" /\ cmds[k].name \notin pipelines)
                => cmds[k].pipeline = "default"

-----------------------------------------------------------------------------
(* Index check properties *)

\* the steps of the ten calls that take a mesh index, naming index j: the call,
\* the observer's note, and everything the call has no access to
IndexCall(j) ==
    \/ /\ \/ update_mesh_transforms(j, UpdateTransforms)
             /\ Observe("update_mesh_transforms", j)
          \/ update_mesh_instances(j, UpdatePositions)
             /\ Observe("update_mesh_instances", j)
          \/ (\E map_ok \in BOOLEAN : update_mesh_joint_matrices(j, UpdateJoints, map_ok))
             /\ Observe("update_mesh_joint_matrices", j)
          \/ update_mesh_instance_buffer(j, 1, TRUE)
             /\ Observe("update_mesh_instance_buffer", j)
          \/ (\E outcome \in SkinnedJointOutcomes :
                update_skinned_mesh_joints(j, UpdateJoints, outcome, ZeroMatrix))
             /\ Observe("update_skinned_mesh_joints", j)
          \/ set_mesh_pipeline(j, "wire") /\ Observe("set_mesh_pipeline", j)
          \/ set_mesh_color(j, "red") /\ Observe("set_mesh_color", j)
          \/ (\E ic \in ReplaceIndexCounts, outcome \in ReplaceOutcomes :
                replace_mesh(j, ic, outcome))
             /\ Observe("replace_mesh", j)
          \/ remove_mesh(j) /\ Observe("remove_mesh", j)
       /\ UNCHANGED <<poolVars, stagingVars, frameRest>>
    \/ /\ \E size \in VertexSizes, outcome \in VertexUploadOutcomes :
            update_mesh_vertices_full(j, size, outcome)
       /\ Observe("update_mesh_vertices_full", j)
       /\ UNCHANGED <<poolVars, frameRest>>

\* C16: a call of update_mesh_transforms, update_mesh_instances,
\* update_mesh_joint_matrices, update_mesh_vertices_full,
\* update_mesh_instance_buffer, update_skinned_mesh_joints, set_mesh_pipeline,
\* set_mesh_color, replace_mesh or remove_mesh with an index >= get_mesh_count
\* leaves the mesh registry, the pipeline registry, the pool blocks, the pools
\* and the staging buffer as they were, and the process keeps running.
C16_OutOfRangeNoOp ==
    [][\A j \in UpdateIndices :
            (j >= get_mesh_count /\ IndexCall(j)) =>
                /\ UNCHANGED <<meshes, pipelines, current_pipeline, graphics_pipeline,
                               pool_blocks, poolVars, stagingVars>>
                /\ fpc' = "idle"
      ]_vars

\* C16 witness: the registry holds one mesh with live pool blocks, the staging
\* buffer exists, and the last rejected call was update_mesh_vertices_full on
\* index 1.
C16_Witness ==
    /\ rejected = [op |-> "update_mesh_vertices_full", mesh_index |-> 1]
    /\ get_mesh_count = 1
    /\ meshes[1].vertex_memory_block # NoPoolBlock
    /\ meshes[1].vertex_memory_block \in pool_blocks.live
    /\ staging_buffer # NullHandle
    /\ fpc = "idle"

-----------------------------------------------------------------------------
(* Pool block ownership properties *)

\* the registry fields that refer to block b
Owners(b) ==
    {<<k, f>> \in (1..Len(meshes)) \X {"vertex", "index", "instance"} :
        b = (IF f = "vertex" THEN meshes[k].vertex_memory_block
             ELSE IF f = "index" THEN meshes[k].index_memory_block
             ELSE meshes[k].instance_memory_block)}

-----------------------------------------------------------------------------
(* Failure isolation properties *)

\* the pipeline handle in effect at command n: the last bind_pipeline up to n
RECURSIVE BoundAt(_)
BoundAt(n) ==
    IF n = 0 THEN Unbound
    ELSE IF cmds[n].cmd = "bind_pipeline" THEN cmds[n].pipeline
    ELSE BoundAt(n - 1)

\* positions of the draw commands of registry slot idx
DrawPositions(idx) ==
    {n \in 1..Len(cmds) : cmds[n].cmd = "draw_indexed" /\ cmds[n].mesh = idx}

\* C17: in a recorded frame a mesh that names an unregistered pipeline, or that
\* lacks an optional resource, changes nothing for the others: every mesh the
\* skip rule keeps and whose pipeline is registered has its draws in the
\* command buffer, each with the mesh's own pipeline in effect, and the frame
\* goes on to end_frame. In the multi-mesh path the mesh with the unknown name
\* is drawn too, with the fallback pipeline; in the fluid path it alone is
\* left out.
C17_NoCrossMeshFailure ==
    /\ fpc = "end" =>
        \A k \in 1..Len(meshes) :
            LET mesh == meshes[k]
            IN ~Skipped(mesh) =>
                /\ Cardinality(DrawPositions(k - 1)) =
                        IF mesh.use_instancing THEN 1 ELSE Len(mesh.transforms)
                /\ \A n \in DrawPositions(k - 1) :
                        BoundAt(n) = PipelineFor(ActualPipelineName(mesh))
    /\ fpc = "end_fluid" =>
        \A k \in 1..Len(meshes) :
            LET mesh == meshes[k]
            IN IF ~FluidSkipped(mesh) /\ FluidPipelineName(mesh) \in pipelines
               THEN /\ Cardinality(DrawPositions(k - 1)) = 1
                    /\ \A n \in DrawPositions(k - 1) : BoundAt(n) = FluidPipelineName(mesh)
               ELSE DrawPositions(k - 1) = {}
    /\ fpc = "end" => ENABLED render_frame_end
    /\ fpc = "end_fluid" => ENABLED render_frame_fluid_end

\* C17 witness: a multi-mesh frame was recorded in which slot 0 names an
\* unregistered pipeline and slot 1, a skinned mesh without descriptor sets
\* that names "wire", is drawn after it.
C17_Witness ==
    /\ fpc = "end"
    /\ Len(meshes) = 2
    /\ meshes[1].pipeline_name = UnregisteredName
    /\ meshes[2].pipeline_name = "wire"
    /\ "wire" \in pipelines
    /\ meshes[2].is_skinned /\ ~meshes[2].skinned_descriptor_sets
    /\ DrawPositions(0) # {}
    /\ DrawPositions(1) # {}

-----------------------------------------------------------------------------
(* Mesh entry invariants *)

\* C21: no registry entry has both a non-empty per-instance transform list and
\* GPU instancing enabled with an instance buffer and a non-zero instance count.
C21_SingleInstancingMode ==
    \A k \in 1..Len(meshes) :
        ~(/\ meshes[k].transforms # <<>>
          /\ meshes[k].use_instancing
          /\ meshes[k].instance_buffer
          /\ meshes[k].instance_count # 0)

\* C22: for every entry that was added and not removed, the vertex buffer has
\* exactly one of a direct memory handle and a pool block, and so has the index
\* buffer.
C22_MemoryXorBlock ==
    \A k \in 1..Len(meshes) :
        (k - 1) \notin removed =>
            /\ meshes[k].vertex_buffer_memory # (meshes[k].vertex_memory_block # NoPoolBlock)
            /\ meshes[k].index_buffer_memory # (meshes[k].index_memory_block # NoPoolBlock)

-----------------------------------------------------------------------------
(* Pipeline registry properties *)

\* a set_current_pipeline or set_active_pipeline step with the given name
SelectStep(name) ==
    /\ \/ set_current_pipeline(name) /\ ObserveError("set_current_pipeline", name \notin pipelines)
       \/ set_active_pipeline(name) /\ ObserveError("set_active_pipeline", name \notin pipelines)
    /\ UNCHANGED <<poolVars, stagingVars, frameRest>>

\* C24: the registry holds "default" from construction on, no call takes a
\* name out of it (so every name added successfully stays), and selecting an
\* unknown name changes neither the registry nor the selection.
C24_RegistryKeepsNames ==
    /\ "default" \in pipelines
    /\ [][/\ "default" \in pipelines'
          /\ pipelines \subseteq pipelines'
          /\ \A name \in RegistryNames \cup {UnregisteredName} :
                (name \notin pipelines /\ SelectStep(name)) =>
                    UNCHANGED <<pipelines, current_pipeline, graphics_pipeline>>
         ]_vars

\* C24 witness: every name was added, "wire" is selected, and the last failing
\* call was a set_current_pipeline.
C24_Witness ==
    /\ pipelines = RegistryNames
    /\ current_pipeline = "wire"
    /\ graphics_pipeline = "wire"
    /\ rejected = [op |-> "set_current_pipeline", mesh_index |-> NoHandle]

-----------------------------------------------------------------------------
(* Pool allocation properties *)

\* size rounded up to a multiple of the alignment
RoundedUp(size, alignment) ==
    IF size % alignment = 0 THEN size ELSE size + alignment - (size % alignment)

\* bytes between a region's offset and the next aligned offset
PadOf(region, alignment) ==
    IF region.offset % alignment = 0 THEN 0 ELSE alignment - (region.offset % alignment)

\* the free list the serving scan of the last allocate ran over: the list before
\* the call, with the region of the chunk the call created
ScannedRegions ==
    IF pool_call'.created = 0 THEN free_regions
    ELSE Append(free_regions, [allocation_index |-> Len(allocations), offset |-> 0,
                               size |-> allocations'[Len(allocations')]])

\* C28: first-fit. A successful allocate serves the request from the first
\* region, in list order, whose size is at least the rounded-up size plus the
\* padding that aligns its offset; a strictly larger region is replaced in
\* place by the remainder starting at the end of the block, an exactly fitting
\* one is removed, every other region stays, and the block has the rounded-up
\* size.
C28_FirstFit ==
    [][(pool_call'.op = "allocate" /\ pool_call'.result = "ok"
            /\ live_blocks' # live_blocks /\ pool_call'.created <= 1) =>
        LET regions == ScannedRegions
            size == pool_call'.size
            alignment == pool_call'.alignment
            need(r) == RoundedUp(size, alignment) + PadOf(r, alignment)
            block == pool_call'.block
        IN \E i \in 1..Len(regions) :
            /\ regions[i].size >= need(regions[i])
            /\ \A j \in 1..(i - 1) : regions[j].size < need(regions[j])
            /\ block.allocation_index = regions[i].allocation_index
            /\ block.offset = regions[i].offset + PadOf(regions[i], alignment)
            /\ block.size = RoundedUp(size, alignment)
            /\ IF regions[i].size > need(regions[i])
               THEN /\ Len(free_regions') = Len(regions)
                    /\ free_regions'[i].allocation_index = regions[i].allocation_index
                    /\ free_regions'[i].offset = block.offset + block.size
                    /\ \A j \in 1..Len(regions) : j # i => free_regions'[j] = regions[j]
               ELSE free_regions' = RemoveAt(regions, i)
      ]_vars

\* C28 witness: the last allocate was served from a region that was not the
\* first of the list, and the remainder took its place.
C28_Witness ==
    /\ pool_call.op = "allocate"
    /\ pool_call.result = "ok"
    /\ pool_call.created = 0
    /\ \E i \in 2..Len(free_regions) :
            /\ free_regions[i].allocation_index = pool_call.block.allocation_index
            /\ free_regions[i].offset = pool_call.block.offset + pool_call.block.size

\* two free regions of one chunk, the second starting where the first ends
Adjacent(r1, r2) ==
    /\ r1.allocation_index = r2.allocation_index
    /\ r1.offset + r1.size = r2.offset

\* C29: free appends one region with the block's chunk, offset and size and
\* leaves every existing region as it is; regions are never merged, so a block
\* handed out by allocate never reaches across two adjacent free regions.
C29_FreeAppendsNoMerge ==
    [][/\ (pool_call'.op = "free" /\ live_blocks' # live_blocks) =>
            /\ Len(free_regions') = Len(free_regions) + 1
            /\ \A i \in 1..Len(free_regions) : free_regions'[i] = free_regions[i]
            /\ free_regions'[Len(free_regions')] =
                    [allocation_index |-> pool_call'.block.allocation_index,
                     offset |-> pool_call'.block.offset,
                     size |-> pool_call'.block.size]
       /\ (pool_call'.op = "allocate" /\ pool_call'.result = "ok"
                /\ live_blocks' # live_blocks) =>
            \A i, j \in 1..Len(free_regions) :
                Adjacent(free_regions[i], free_regions[j]) =>
                    ~(/\ pool_call'.block.allocation_index = free_regions[i].allocation_index
                      /\ pool_call'.block.offset < free_regions[j].offset
                      /\ pool_call'.block.offset + pool_call'.block.size
                            > free_regions[j].offset)
      ]_vars

\* C29 witness: two adjacent 128 MB regions of chunk 0 are free, together as
\* large as the chunk, and a 200 MB request was served from a new chunk.
C29_Witness ==
    /\ pool_call.op = "allocate"
    /\ pool_call.size = 200 * MB
    /\ pool_call.result = "ok"
    /\ pool_call.created = 1
    /\ pool_call.block.allocation_index = 1
    /\ \E i, j \in 1..Len(free_regions) :
            /\ Adjacent(free_regions[i], free_regions[j])
            /\ free_regions[i].size = 128 * MB
            /\ free_regions[j].size = 128 * MB

-----------------------------------------------------------------------------
(* Skip rule properties *)

\* commands of the recorded frame that belong to registry slot idx
CommandsOf(idx) == {n \in 1..Len(cmds) : cmds[n].mesh = idx}

\* C30: in a recorded frame, of either recording path, a mesh entry has no
\* pipeline bind, no resource bind and no draw exactly when it is not
\* instanced and has no transforms, or is instanced with instance_count 0; a
\* skipped mesh leaves the bound-pipeline tracker alone, so the binds follow
\* the runs of names of the meshes kept.
C30_SkipRule ==
    /\ fpc \in {"end", "end_fluid"} =>
            \A k \in 1..Len(meshes) : (CommandsOf(k - 1) = {}) <=> Skipped(meshes[k])
    /\ fpc = "end" => CountCmds("bind_pipeline") = Runs(DrawnNames)

\* the same rule for the multi-mesh path alone
SkipRuleMulti ==
    /\ fpc = "end" =>
            \A k \in 1..Len(meshes) : (CommandsOf(k - 1) = {}) <=> Skipped(meshes[k])
    /\ fpc = "end" => CountCmds("bind_pipeline") = Runs(DrawnNames)

\* in the fluid path a registered, instanced mesh with instance_count 0 is kept
FluidKeepsEmptyInstanced ==
    fpc = "end_fluid" =>
        \A k \in 1..Len(meshes) :
            (meshes[k].use_instancing /\ meshes[k].instance_count = 0
                /\ FluidPipelineName(meshes[k]) \in pipelines) => CommandsOf(k - 1) # {}

-----------------------------------------------------------------------------
(* Vertex upload properties *)

\* position of a call in the record of the last upload, 0 when it was not made
CallPosition(call) ==
    IF \E n \in 1..Len(upload.ops) : upload.ops[n] = call
    THEN CHOOSE n \in 1..Len(upload.ops) : upload.ops[n] = call
    ELSE 0

\* C23: update_mesh_vertices_full is synchronous. When it has returned, it
\* obtained the staging buffer, copied the data into it, recorded the copy,
\* submitted it and waited for the queue, in that order, and the copy has
\* completed: nothing is pending on the queue, the vertex buffer holds the new
\* data and the command buffer was not freed under a pending copy.
C23_SynchronousUpload ==
    upload.returned =>
        /\ 0 < CallPosition("get_staging_buffer")
        /\ CallPosition("get_staging_buffer") < CallPosition("copy_nonoverlapping")
        /\ CallPosition("copy_nonoverlapping") < CallPosition("cmd_copy_buffer")
        /\ CallPosition("cmd_copy_buffer") < CallPosition("queue_submit")
        /\ CallPosition("queue_submit") < CallPosition("queue_wait_idle")
        /\ ~upload.pending
        /\ ~upload.freed_pending
        /\ upload.vertex = upload.data

\* an upload of new data to mesh 0 has returned
C23_Witness ==
    /\ upload.returned
    /\ upload.data \in VertexData
    /\ upload.vertex = upload.data
    /\ fpc = "idle"
    /\ Len(meshes) > 0

-----------------------------------------------------------------------------
(* Frame loop liveness *)

\* begin_frame, called now, returns: its wait_for_fences on the current slot
\* does not block
BeginFrameReturns == wait_for_fences(in_flight_fences, current_frame)

\* C25: with a GPU that eventually completes every submission, whenever the
\* application is about to call begin_frame the call eventually returns,
\* whatever failed in earlier frames: the fence of the current slot is never
\* left unsignaled without a pending submission that will signal it.
C25_BeginFrameReturns == (fpc = "idle") ~> (fpc = "idle" /\ BeginFrameReturns)

\* the state the liveness needs to exclude, as a state predicate
FenceNeverStranded ==
    \A slot \in Slots : (fpc = "idle" /\ ~in_flight_fences[slot]) => FencePending(slot)

-----------------------------------------------------------------------------
(* Resource lifetime properties *)

\* C26: remove_mesh and replace_mesh destroy or free no buffer, descriptor
\* pool or memory of a mesh while a frame submitted earlier, whose command
\* buffer references it, is still executing on the GPU.
C26_NoDestroyInFlight == hazard.op \notin {"remove_mesh", "replace_mesh"}

\* replace_mesh alone never destroys a buffer a frame on the queue reads
ReplaceWaitsForQueue == hazard.op # "replace_mesh"

\* C27: no host write to a mesh's camera uniform buffer, joint buffer or
\* instance buffer happens while a frame submitted earlier that reads the
\* buffer is still executing on the GPU.
C27_NoHostWriteInFlight ==
    hazard.op \notin {"record_command_buffer", "update_mesh_joint_matrices",
                      "update_skinned_mesh_joints", "update_mesh_instance_buffer"}

-----------------------------------------------------------------------------
(* Semaphore discipline *)

\* a begin_frame step whose acquire_next_image succeeded: the slot's
\* image-available semaphore was handed to the acquire
AcquireSignals ==
    \E entry \in EntryPoints, outcome \in BeginOutcomes \ {"acquire_err"}, img \in Images :
        begin_frame(entry, outcome, img)

\* an end_frame step whose queue_submit succeeded: the slot's render-complete
\* semaphore was handed to the submit as its signal semaphore
SubmitSignals == \E outcome \in EndOutcomes \ {"submit_err"} : end_frame(outcome)

\* an earlier signal on the slot's render-complete semaphore is unconsumed: a
\* submission that will signal it is on the queue, or it is signaled, or a
\* present that waits on it has not executed
RenderFinishedUnconsumed(slot) ==
    \/ \E k \in 1..Len(submitted) : submitted[k].signal = slot
    \/ render_finished_semaphores[slot]
    \/ \E k \in 1..Len(presents) : presents[k].wait = slot

\* C31: no binary semaphore is handed to a signalling operation while an
\* earlier signal on it is unconsumed: the acquire gets the slot's
\* image-available semaphore only when the submit that waited on its previous
\* signal has consumed it, and a submit signals the slot's render-complete
\* semaphore only when the present that waited on its previous signal has
\* consumed it.
C31_SemaphoreDiscipline ==
    [][/\ AcquireSignals => ~image_available_semaphores[current_frame]
       /\ SubmitSignals => ~RenderFinishedUnconsumed(current_frame)]_vars

\* the acquire half of the discipline
AcquireDiscipline ==
    [][AcquireSignals => ~image_available_semaphores[current_frame]]_vars

\* the submit half of the discipline
SubmitDiscipline == [][SubmitSignals => ~RenderFinishedUnconsumed(current_frame)]_vars

-----------------------------------------------------------------------------
(* Frame slot index *)

\* C32: the frame-slot index changes only in a successful end_frame, where it
\* becomes (slot + 1) mod 2; begin_frame, recording and an end_frame that fails
\* at submit or present leave it unchanged. The frame after a failure
\* therefore reuses the slot, and the slot is the number of successful frames
\* mod 2.
C32_SlotAdvance ==
    /\ [](current_frame = frame_index % MAX_FRAMES_IN_FLIGHT)
    /\ [][/\ current_frame' # current_frame =>
                /\ end_frame("ok")
                /\ current_frame' = (current_frame + 1) % MAX_FRAMES_IN_FLIGHT
          /\ (\E outcome \in EndOutcomes \ {"ok"} : end_frame(outcome)) =>
                current_frame' = current_frame
          /\ end_frame("ok") => current_frame' # current_frame]_vars

\* after one successful frame, a frame on slot 1 failed at present and the
\* slot index is still 1
C32_Witness ==
    /\ frame_index = 1
    /\ current_frame = 1
    /\ fpc = "idle"
    /\ FailedAt # 0
    /\ frame_ops[FailedAt].op = "queue_present"

-----------------------------------------------------------------------------
(* Instance count properties *)

\* the instanced draws of the recorded frame
InstancedDraws ==
    {n \in 1..Len(cmds) : cmds[n].cmd = "draw_indexed"
                            /\ meshes[cmds[n].mesh + 1].use_instancing}

\* C33: for every instanced mesh, after any sequence of
\* update_mesh_instance_buffer calls, the instance count of its draw is the
\* number of positions its instance buffer holds and is not larger than the
\* capacity the buffer was created with.
C33_InstanceCountMatchesBuffer ==
    fpc = "end" =>
        \A n \in InstancedDraws :
            /\ cmds[n].instance_count = meshes[cmds[n].mesh + 1].instance_stored
            /\ cmds[n].instance_count <= meshes[cmds[n].mesh + 1].instance_capacity

\* the draw never reads past a directly allocated instance buffer that was
\* written with at most its capacity
DirectWithinCapacityMatches ==
    fpc = "end" =>
        \A n \in InstancedDraws :
            LET mesh == meshes[cmds[n].mesh + 1]
            IN (mesh.instance_buffer_memory /\ mesh.instance_count <= mesh.instance_capacity
                    /\ mesh.instance_count = mesh.instance_stored) =>
                        cmds[n].instance_count = mesh.instance_stored

-----------------------------------------------------------------------------
(* Staging buffer after a failed replacement *)

\* C34: the manager keeps no destroyed handle, whatever failed while the
\* staging buffer was replaced: a get_staging_buffer call that returns Ok
\* returns a buffer that is live, and neither a later replacement nor destroy
\* destroys or frees a handle a second time.
C34_NoDestroyedHandle ==
    /\ staging_call.result = "ok" => staging_call.buffer \in staging_device.buffers
    /\ ~staging_device.double_destroy

\* a successful call never returns a destroyed buffer as long as no earlier
\* call failed
LiveWhileNoFailure ==
    (staging_call.result = "ok" /\ ~staging_call.failed) =>
        staging_call.buffer \in staging_device.buffers

\* the first half of the property alone
ReturnsLiveBuffer ==
    staging_call.result = "ok" => staging_call.buffer \in staging_device.buffers

\* the second half of the property alone
NoDoubleDestroy == ~staging_device.double_destroy

-----------------------------------------------------------------------------
(* replace_mesh: what it keeps *)

\* the fields of an entry that hold its vertex and index buffers, their memory
\* and the index count
GeometryFields ==
    {"vertex_buffer", "vertex_buffer_memory", "vertex_memory_block",
     "index_buffer", "index_buffer_memory", "index_memory_block", "index_count"}

\* C35: when replace_mesh(i) returns an error for an index in range (the
\* device wait or the creation of a buffer failed), entry i is left as it was
\* before the call.
C35_FailedReplaceKeepsEntry ==
    [][\A i \in MeshIndices, ic \in ReplaceIndexCounts, outcome \in ReplaceOutcomes \ {"ok"} :
            (i < Len(meshes) /\ replace_mesh(i, ic, outcome)) =>
                meshes'[i + 1] = meshes[i + 1]]_vars

\* C36: a successful replace_mesh(i) changes only the vertex buffer, the index
\* buffer, their memory and the index count of entry i; every other field of
\* the entry, every other entry and the mesh count are as before.
C36_ReplaceKeepsTheRest ==
    [][\A i \in MeshIndices, ic \in ReplaceIndexCounts :
            (i < Len(meshes) /\ replace_mesh(i, ic, "ok")) =>
                /\ Len(meshes') = Len(meshes)
                /\ \A k \in 1..Len(meshes) : k # i + 1 => meshes'[k] = meshes[k]
                /\ \A f \in DOMAIN EmptyMeshEntry \ GeometryFields :
                        meshes'[i + 1][f] = meshes[i + 1][f]
                /\ meshes'[i + 1].index_count = ic]_vars

\* an entry with transforms and a pipeline name was replaced, next to another
\* entry
C36_Witness ==
    /\ Len(meshes) = 2
    /\ \E k \in 1..2 :
        /\ meshes[k].index_count \in ReplaceIndexCounts
        /\ meshes[k].vertex_buffer_memory
        /\ meshes[k].transforms # <<>>
        /\ meshes[k].pipeline_name # NoName

\* Add exploration: add_mesh and add_mesh_instanced with every outcome, and
\* remove_mesh; the number of blocks lost by failed calls is capped
MaxLeaked == 6

NextAdd ==
    \/ (/\ Len(meshes) < MaxMeshes
        /\ Cardinality(LeakedBlocks(pool_blocks)) + 3 <= MaxLeaked
        /\ \E ic \in AddIndexCounts, outcome \in AddMeshOutcomes : add_mesh(ic, outcome))
            /\ UNCHANGED <<poolVars, stagingVars, frameRest, observerVars>>
    \/ (/\ Len(meshes) < MaxMeshes
        /\ Cardinality(LeakedBlocks(pool_blocks)) + 3 <= MaxLeaked
        /\ \E ic \in AddIndexCounts, n \in InstanceCounts \ {0},
              name \in PipelineNames \cup {NoName}, outcome \in AddInstancedOutcomes :
                add_mesh_instanced(ic, n, name, outcome))
            /\ UNCHANGED <<poolVars, stagingVars, frameRest, observerVars>>
    \/ (\E i \in MeshIndices : remove_mesh(i))
            /\ UNCHANGED <<poolVars, stagingVars, frameRest, observerVars>>

SpecAdd == InitMesh /\ [][NextAdd]_vars

\* a step of add_mesh or add_mesh_instanced that returns an error
FailedAddStep ==
    \/ \E ic \in AddIndexCounts, outcome \in AddMeshOutcomes \ {"ok"} : add_mesh(ic, outcome)
    \/ \E ic \in AddIndexCounts, n \in InstanceCounts \ {0},
          name \in PipelineNames \cup {NoName}, outcome \in AddInstancedOutcomes \ {"ok"} :
            add_mesh_instanced(ic, n, name, outcome)

\* C37: when add_mesh or add_mesh_instanced returns an error, the registry is
\* as before the call and so is the pool's set of live blocks: no block
\* allocated during the failed call stays allocated without an owner.
C37_FailedAddReleasesBlocks ==
    [][(Len(meshes) < MaxMeshes /\ FailedAddStep) =>
            /\ meshes' = meshes
            /\ pool_blocks'.live = pool_blocks.live]_vars

\* the registry half of C37: a failed add leaves count and entries as before
FailedAddKeepsRegistry ==
    [][(Len(meshes) < MaxMeshes /\ FailedAddStep) => meshes' = meshes]_vars

\* the pool half of C37 for a call that fails before its first block exists
EarlyFailureKeepsPool ==
    [][\A ic \in AddIndexCounts, outcome \in {"vertex_staging_err", "vertex_buffer_err"} :
            (Len(meshes) < MaxMeshes /\ add_mesh(ic, outcome)) =>
                pool_blocks'.live = pool_blocks.live]_vars

\* Egui exploration: registries of plain and GPU-instanced meshes, with and
\* without transforms, recorded by both render calls
NextEgui ==
    \/ (Len(meshes) < MaxMeshes /\ \E ic \in AddIndexCounts : add_mesh(ic, "ok"))
            /\ UNCHANGED <<poolVars, stagingVars, frameRest, observerVars>>
    \/ (Len(meshes) < MaxMeshes /\ \E ic \in AddIndexCounts, n \in InstanceCounts,
            name \in PipelineNames \cup {NoName} : add_mesh_instanced(ic, n, name, "ok"))
            /\ UNCHANGED <<poolVars, stagingVars, frameRest, observerVars>>
    \/ (\E i \in MeshIndices, t \in TransformLists : update_mesh_transforms(i, t))
            /\ UNCHANGED <<poolVars, stagingVars, frameRest, observerVars>>
    \/ render_frame_record /\ UNCHANGED <<poolVars, stagingVars, frameRest, observerVars>>
    \/ render_frame_end /\ UNCHANGED <<poolVars, stagingVars, frameRest, observerVars>>
    \/ render_frame_with_egui_record
            /\ UNCHANGED <<poolVars, stagingVars, frameRest, observerVars>>
    \/ render_frame_with_egui_end
            /\ UNCHANGED <<poolVars, stagingVars, frameRest, observerVars>>

SpecEgui == InitMesh /\ [][NextEgui]_vars

\* the registry slots for which a list of commands holds a draw
DrawnBy(commands) ==
    {commands[n].mesh : n \in {m \in 1..Len(commands) : commands[m].cmd = "draw_indexed"}}

\* C38: a frame recorded by render_frame_with_egui draws the meshes that
\* render_frame_with_camera_multi draws for the same registry, which are the
\* meshes the skip rule keeps; this includes a registry whose only drawable
\* meshes are GPU-instanced.
C38_EguiDrawsSameMeshes ==
    fpc = "end_egui" =>
        /\ DrawnBy(cmds) = DrawnBy(RecordMeshes(1, Unbound))
        /\ DrawnBy(cmds) = {k - 1 : k \in {j \in 1..Len(meshes) : ~Skipped(meshes[j])}}

\* the two calls record the same commands when some entry has transforms
EguiMatchesWithTransforms ==
    (fpc = "end_egui" /\ AnyTransforms) => cmds = RecordMeshes(1, Unbound)

\* the multi-mesh call draws exactly the meshes the skip rule keeps
MultiDrawsKept ==
    fpc = "end" =>
        DrawnBy(cmds) = {k - 1 : k \in {j \in 1..Len(meshes) : ~Skipped(meshes[j])}}

(* Allocate / free round trip *)

\* sum of the sizes of the free regions
RECURSIVE FreeBytes(_)
FreeBytes(regions) ==
    IF regions = <<>> THEN 0 ELSE Head(regions).size + FreeBytes(Tail(regions))

\* sum of the sizes of the chunks from the k-th on
RECURSIVE ChunkBytes(_, _)
ChunkBytes(chunks, k) ==
    IF k > Len(chunks) THEN 0 ELSE chunks[k] + ChunkBytes(chunks, k + 1)

\* pool.allocate(size, alignment) on the current pool, granted by the device
RoundTripAllocate(size, alignment) == Allocate(PoolState, size, alignment, TRUE, MaxRetry)

\* the free list after pool.free of the block that allocate just returned
RoundTripRegions(size, alignment) ==
    LET r == RoundTripAllocate(size, alignment) IN Free(r.free_regions, r.block)

\* C39: from every pool state, for every size and alignment, allocating a
\* block and freeing it again leaves the total of the free-region sizes as
\* it was, apart from the chunks the allocation added; no bytes are lost to
\* alignment padding.
C39_RoundTripKeepsFreeBytes ==
    \A size \in Sizes, alignment \in Alignments :
        LET r == RoundTripAllocate(size, alignment)
        IN (r.result = "ok" /\ Len(r.allocations) <= MaxChunks) =>
                FreeBytes(RoundTripRegions(size, alignment))
                    = FreeBytes(free_regions) + ChunkBytes(r.allocations, Len(allocations) + 1)

\* the round trip keeps the total when the block is carved without padding
RoundTripWithoutPadding ==
    \A size \in Sizes, alignment \in Alignments :
        LET r == RoundTripAllocate(size, alignment)
            hit == FirstFit(free_regions, size, alignment)
        IN (/\ r.result = "ok"
            /\ Len(r.allocations) <= MaxChunks
            /\ hit # 0 => Padding(free_regions[hit], alignment) = 0) =>
                FreeBytes(RoundTripRegions(size, alignment))
                    = FreeBytes(free_regions) + ChunkBytes(r.allocations, Len(allocations) + 1)

\* the bytes missing after the round trip are the padding of the region used
RoundTripLosesPadding ==
    \A size \in Sizes, alignment \in Alignments :
        LET r == RoundTripAllocate(size, alignment)
            hit == FirstFit(free_regions, size, alignment)
        IN (r.result = "ok" /\ hit # 0) =>
                FreeBytes(RoundTripRegions(size, alignment))
                    = FreeBytes(free_regions) - Padding(free_regions[hit], alignment)

====
